---- MODULE Spec2Model ----
(***************************************************************************)
(* Model of the rent-or-buy calculator (main.go, package main): the global *)
(* config and month-indexed series, parseConfig, populateMonthlyCosts and  *)
(* the sale / net-worth calculations.                                      *)
(*                                                                         *)
(* Numbers.  A Go float64 amount or percentage is held as an integer count *)
(* of hundredths (Scale), so 6.5 is 650 and $400,000 is 40000000.  Sums    *)
(* and differences are exact; every product or quotient is rounded to the  *)
(* nearest hundredth, as a float operation rounds to the nearest           *)
(* representable value.  The non-finite results of a float division by     *)
(* zero are kept apart from numbers (see calculateMonthlyPayment).         *)
(***************************************************************************)
EXTENDS Integers, Sequences, FiniteSets, TLC

\* ------------------------------------------------------------------------
\* Arithmetic on the fixed-point representation
\* ------------------------------------------------------------------------

\* Resolution of an amount: hundredths.
Scale == 10 * 10

\* Denominator of config.monthlyRate = annualRate / 100 / 12 when annualRate
\* is held in hundredths: monthlyRate = annualRate / MonthlyDen.
MonthlyDen == Scale * 100 * 12

\* Denominator of rate / 100 when rate is held in hundredths.
PercentDen == Scale * 100

\* Resolution of the factor (1+monthlyRate)^months of math.Pow.
FactorScale == MonthlyDen * 1000

Abs(x) == IF x < 0 THEN -x ELSE x

Sgn(x) == IF x < 0 THEN -1 ELSE 1

Max(a, b) == IF a >= b THEN a ELSE b

Min(a, b) == IF a <= b THEN a ELSE b

\* n / d rounded to nearest, for n >= 0 and d > 0.
RoundDiv(n, d) ==
    LET q == n \div d
        r == n % d
    IN  IF r >= d - r THEN q + 1 ELSE q

\* x * a / d rounded to nearest (half away from zero); Abs(a) * d stays
\* below 2^31 so that no intermediate product leaves the integer range.
MulFrac(x, a, d) ==
    LET ax == Abs(x)
        aa == Abs(a)
        q  == ax \div d
        r  == ax % d
    IN  Sgn(x) * Sgn(a) * (q * aa + RoundDiv(r * aa, d))

\* x * (1 + a/d), the one float multiplication by a growth factor.
Grow(x, a, d) == x + MulFrac(x, a, d)

\* a + b modulo c without leaving the integer range (0 <= a, b < c).
AddMod(a, b, c) == IF a >= c - b THEN a - (c - b) ELSE a + b

\* 1 when a + b >= c, else 0 (0 <= a, b < c).
Carry(a, b, c) == IF a >= c - b THEN 1 ELSE 0

\* <<q, r>> doubled, and <<q, r>> plus a, as quotient and remainder over c.
Doubled(h, c) == <<2 * h[1] + Carry(h[2], h[2], c), AddMod(h[2], h[2], c)>>

Added(h, a, c) ==
    <<h[1] + a \div c + Carry(h[2], a % c, c), AddMod(h[2], a % c, c)>>

ShiftIn(h, a, bit, c) ==
    LET d == Doubled(h, c) IN IF bit = 1 THEN Added(d, a, c) ELSE d

\* Four bits d of the multiplier shifted into <<q, r>>, high bit first.
ShiftNibble(h, a, d, c) ==
    LET h3 == ShiftIn(h, a, d \div 8, c)
        h2 == ShiftIn(h3, a, (d \div 4) % 2, c)
        h1 == ShiftIn(h2, a, (d \div 2) % 2, c)
    IN  ShiftIn(h1, a, d % 2, c)

\* <<q, r>> with a * b = q * c + r and 0 <= r < c, for a, b >= 0 and c > 0,
\* by binary long multiplication, four bits of b a step: the product itself
\* is never formed.
RECURSIVE MulDivBits(_, _, _)
MulDivBits(a, b, c) ==
    IF b = 0 THEN <<0, 0>>
    ELSE LET h == MulDivBits(a, b \div 16, c)
         IN  IF h[1] >= 0 THEN ShiftNibble(h, a, b % 16, c) ELSE <<0, 0>>

\* The operands are evaluated before the multiplication starts.
MulDivRem(a, b, c) ==
    IF a >= 0 /\ b >= 0 /\ c > 0 THEN MulDivBits(a, b, c) ELSE <<0, 0>>

\* The quotient of <<q, r>> over c rounded to nearest.
Nearest(h, c) == IF h[2] >= c - h[2] THEN h[1] + 1 ELSE h[1]

\* a * b / c rounded to nearest, signed a and b, c > 0.
MulDiv(a, b, c) == Sgn(a) * Sgn(b) * Nearest(MulDivRem(Abs(a), Abs(b), c), c)

\* ------------------------------------------------------------------------
\* float64 results that may be non-finite
\* ------------------------------------------------------------------------

Num(v) == [kind |-> "num", v |-> v]

PosInf == [kind |-> "+Inf", v |-> 0]

NegInf == [kind |-> "-Inf", v |-> 0]

NaN == [kind |-> "NaN", v |-> 0]

\* a / 0 in float64 arithmetic: the sign of a decides, 0 / 0 is NaN.
DivByZero(a) == IF a > 0 THEN PosInf ELSE IF a < 0 THEN NegInf ELSE NaN

\* ------------------------------------------------------------------------
\* Input text and its parsers
\* ------------------------------------------------------------------------

\* The text of an amount field: empty, a decimal number (digits, held in
\* hundredths) with an optional k/m/b suffix and % sign, or anything else.
EmptyText == [kind |-> "empty", digits |-> 0, suffix |-> "", pct |-> FALSE]

BadText == [kind |-> "bad", digits |-> 0, suffix |-> "", pct |-> FALSE]

Text(n) == [kind |-> "num", digits |-> n * Scale, suffix |-> "", pct |-> FALSE]

TextK(n) == [kind |-> "num", digits |-> n * Scale, suffix |-> "k", pct |-> FALSE]

TextPct(n) == [kind |-> "num", digits |-> n * Scale, suffix |-> "", pct |-> TRUE]

\* parseAmount: empty text is 0 without error; the % sign is dropped; a
\* k/m/b suffix multiplies; unparseable text is an error with value 0.
parseAmount(input) ==
    IF input.kind = "empty" THEN [err |-> FALSE, value |-> 0]
    ELSE IF input.kind = "bad" THEN [err |-> TRUE, value |-> 0]
    ELSE LET multiplier == IF input.suffix = "k" THEN 1000
                           ELSE IF input.suffix = "m" THEN 1000000
                           ELSE IF input.suffix = "b" THEN 1000000000
                           ELSE 1
         IN  [err |-> FALSE, value |-> input.digits * multiplier]

\* parseAppreciationRates: the text is the sequence of its comma-separated
\* parts; the empty text gives [0]; one bad part is an error.
RECURSIVE parseRateParts(_, _)
parseRateParts(parts, rates) ==
    IF parts = <<>> THEN [err |-> FALSE, rates |-> rates]
    ELSE LET rate == parseAmount(Head(parts))
         IN  IF rate.err THEN [err |-> TRUE, rates |-> <<>>]
             ELSE parseRateParts(Tail(parts), Append(rates, rate.value))

\* The empty text giving no rate at all.
parseAppreciationRatesWithoutDefault(input) == parseRateParts(input, <<>>)

parseAppreciationRates(input) ==
    IF input = <<>> THEN [err |-> FALSE, rates |-> <<0>>]
    ELSE parseRateParts(input, <<>>)

\* The text of a duration field: the part before 'y' and the part before
\* 'm', each absent, a decimal integer, or not a number.
Absent == [kind |-> "absent", n |-> 0]

NotANumber == [kind |-> "bad", n |-> 0]

Digits(n) == [kind |-> "int", n |-> n]

Duration(y, m) == [years |-> y, months |-> m]

\* The total returned whatever its sign.
parseDurationUnchecked(duration) ==
    IF duration.years.kind = "bad" THEN [err |-> TRUE, value |-> 0]
    ELSE IF duration.months.kind = "bad" THEN [err |-> TRUE, value |-> 0]
    ELSE [err |-> FALSE,
          value |-> duration.years.n * 12 + duration.months.n]

\* parseDuration: years*12 + months, an error when a part is not a number
\* or the total is not positive.
parseDuration(duration) ==
    IF duration.years.kind = "bad" THEN [err |-> TRUE, value |-> 0]
    ELSE IF duration.months.kind = "bad" THEN [err |-> TRUE, value |-> 0]
    ELSE LET years == duration.years.n
             months == duration.months.n
             totalMonths == years * 12 + months
         IN  IF totalMonths <= 0 THEN [err |-> TRUE, value |-> 0]
             ELSE [err |-> FALSE, value |-> totalMonths]

\* ------------------------------------------------------------------------
\* Amortization
\* ------------------------------------------------------------------------

\* (1 + monthlyRate)^(hi - lo) at FactorScale, from f, one factor a step.
RECURSIVE PowLoop(_, _, _, _)
PowLoop(f, monthlyRate, lo, hi) ==
    IF hi <= lo THEN f
    ELSE IF hi = lo + 1 THEN Grow(f, monthlyRate, MonthlyDen)
    ELSE LET mid  == (lo + hi) \div 2
             left == PowLoop(f, monthlyRate, lo, mid)
         IN  IF left = left THEN PowLoop(left, monthlyRate, mid, hi) ELSE f

\* math.Pow(1 + monthlyRate, months) at FactorScale; a negative exponent
\* gives the reciprocal.
PowFactor(monthlyRate, months) ==
    IF months >= 0 THEN PowLoop(FactorScale, monthlyRate, 0, months)
    ELSE MulDiv(FactorScale, FactorScale,
                PowLoop(FactorScale, monthlyRate, 0, -months))

\* main / MonthlyDen plus the whole part of rest over MonthlyDen, rounded
\* once (main and rest as quotient and remainder).
PaymentSum(main, rest) == main[1] + RoundDiv(main[2] + rest[1], MonthlyDen)

\* principal * (q + r / den) / MonthlyDen for unit = <<q, r>>.
PaymentOfUnit(principal, unit, den) ==
    PaymentSum(MulDivRem(principal, unit[1], MonthlyDen),
               MulDivRem(principal, unit[2], den))

\* principal * monthlyRate / (factor - 1): the factor left out of the
\* numerator.
AnnuityPaymentWithoutFactor(principal, monthlyRate, factor) ==
    Sgn(factor - FactorScale) * Sgn(principal) * Sgn(monthlyRate)
    * PaymentOfUnit(Abs(principal),
                    MulDivRem(FactorScale, Abs(monthlyRate),
                              Abs(factor - FactorScale)),
                    Abs(factor - FactorScale))

\* principal * (monthlyRate * factor) / (factor - 1) for factor # 1: the
\* payment per unit of principal is formed first, as quotient and remainder
\* over factor - 1.
AnnuityPayment(principal, monthlyRate, factor) ==
    Sgn(factor - FactorScale) * Sgn(principal) * Sgn(monthlyRate)
    * PaymentOfUnit(Abs(principal),
                    MulDivRem(factor, Abs(monthlyRate), Abs(factor - FactorScale)),
                    Abs(factor - FactorScale))

\* The payment once the factor (1 + monthlyRate)^months is known.
PaymentOfFactor(principal, monthlyRate, factor) ==
    IF factor = FactorScale
    THEN DivByZero(Sgn(principal) * Sgn(monthlyRate))
    ELSE Num(AnnuityPayment(principal, monthlyRate, factor))

\* calculateMonthlyPayment: no check of months; a zero term divides by
\* zero, a negative one gives a negative number.
calculateMonthlyPayment(principal, monthlyRate, months) ==
    IF monthlyRate = 0
    THEN IF months = 0 THEN DivByZero(principal)
         ELSE Num(Sgn(principal) * Sgn(months) * RoundDiv(Abs(principal), Abs(months)))
    ELSE PaymentOfFactor(principal, monthlyRate, PowFactor(monthlyRate, months))

\* ------------------------------------------------------------------------
\* The global state of the process and parseConfig
\* ------------------------------------------------------------------------

\* 30 years maximum projection: the length of every series.
maxMonths == 360

\* The zero value of Config.
ZeroConfig ==
    [inflationRate |-> 0, include30Year |-> 0,
     purchasePrice |-> 0, currentMarketValue |-> 0, downpayment |-> 0,
     loanAmount |-> 0, annualRate |-> 0, totalMonths |-> 0, monthlyRate |-> 0,
     monthlyLoanPayment |-> 0, annualInsurance |-> 0, annualTaxes |-> 0,
     monthlyExpenses |-> 0, totalMonthlyBuyingCost |-> 0,
     rentDeposit |-> 0, monthlyRent |-> 0, annualRentCosts |-> 0,
     otherAnnualCosts |-> 0, investmentReturnRate |-> 0,
     totalMonthlyRentingCost |-> 0,
     includeSelling |-> 0, agentCommission |-> 0, stagingCosts |-> 0,
     capitalGainsTax |-> 0]

\* The package-level variables at process start: config is the zero value
\* and every slice is nil.
ZeroGlobals ==
    [config |-> ZeroConfig,
     appreciationRates |-> <<>>, taxFreeLimits |-> <<>>,
     monthlyBuyingCosts |-> <<>>, monthlyRentingCosts |-> <<>>,
     remainingLoanBalance |-> <<>>, cumulativePrincipalPaid |-> <<>>,
     cumulativeInterestPaid |-> <<>>,
     monthlyKeepInvestmentValue |-> <<>>, monthlyKeepRealCosts |-> <<>>,
     monthlyKeepNetPosition |-> <<>>]

getFloatValue(inputs, key) == parseAmount(inputs[key])

getIntValue(inputs, key) == parseDuration(inputs[key])

NoError == "nil"

\* The assignments parseConfig makes before the scenario branch, in order:
\* input key, the variable or config field assigned, the error returned on
\* a parse failure ("" when the failure is replaced by a default), and how
\* the text is read.
CommonFields ==
    << <<"inflation_rate", "inflationRate", "invalid inflation rate", "amount">>,
       <<"include_30year", "include30Year", "", "amount">>,
       <<"annual_insurance", "annualInsurance", "invalid annual insurance", "amount">>,
       <<"annual_taxes", "annualTaxes", "invalid annual taxes", "amount">>,
       <<"monthly_expenses", "monthlyExpenses", "invalid monthly expenses", "amount">>,
       <<"appreciation_rate", "appreciationRates", "invalid appreciation rate", "rates">>,
       <<"rent_deposit", "rentDeposit", "invalid rental deposit", "amount">>,
       <<"monthly_rent", "monthlyRent", "invalid monthly rent", "amount">>,
       <<"annual_rent_costs", "annualRentCosts", "invalid annual rent costs", "amount">>,
       <<"other_annual_costs", "otherAnnualCosts", "invalid other annual costs", "amount">>,
       <<"investment_return_rate", "investmentReturnRate",
         "invalid investment return rate", "amount">>,
       <<"include_selling", "includeSelling", "", "amount">>,
       <<"agent_commission", "agentCommission", "", "amount">>,
       <<"staging_costs", "stagingCosts", "", "amount">>,
       <<"tax_free_limit", "taxFreeLimits", "", "limits">>,
       <<"capital_gains_tax", "capitalGainsTax", "", "amount">>,
       <<"purchase_price", "purchasePrice",
         "invalid purchase price - cannot be zero", "price">>,
       <<"loan_amount", "loanAmount", "invalid loan amount", "amount">> >>

\* The purchase price is rejected only when it fails to parse or is zero.
PurchasePriceRejected(price) == price.err \/ price.value = 0

\* One assignment e of CommonFields: the globals after it, and the error
\* parseConfig returns there, if any.
ParseField(g, inputs, e) ==
    IF e[4] = "rates"
    THEN LET ar == parseAppreciationRates(inputs[e[1]])
         IN  [err |-> IF ar.err THEN e[3] ELSE NoError,
              g |-> [g EXCEPT !.appreciationRates = ar.rates]]
    ELSE IF e[4] = "limits"
    THEN LET tf == parseAppreciationRates(inputs[e[1]])
         IN  [err |-> NoError,
              g |-> [g EXCEPT !.taxFreeLimits = IF tf.err THEN <<0>> ELSE tf.rates]]
    ELSE LET a == getFloatValue(inputs, e[1])
         IN  [err |-> IF e[4] = "price"
                      THEN IF PurchasePriceRejected(a) THEN e[3] ELSE NoError
                      ELSE IF a.err /\ e[3] # "" THEN e[3] ELSE NoError,
              g |-> [g EXCEPT !.config[e[2]] = a.value]]

\* The assignments of list in order, up to the first error returned.
RECURSIVE ParseFields(_, _, _)
ParseFields(g, inputs, list) ==
    IF list = <<>> THEN [err |-> NoError, g |-> g]
    ELSE LET p == ParseField(g, inputs, Head(list))
         IN  IF p.err # NoError THEN p ELSE ParseFields(p.g, inputs, Tail(list))

\* The balance left after monthsElapsed payments of the original loan
\* (the loop of the SELL vs KEEP branch).
RECURSIVE ElapsedLoop(_, _, _, _, _)
ElapsedLoop(balance, payment, monthlyRate, lo, hi) ==
    IF hi <= lo THEN balance
    ELSE IF hi = lo + 1
    THEN balance - (payment - MulFrac(balance, monthlyRate, MonthlyDen))
    ELSE LET mid  == (lo + hi) \div 2
             left == ElapsedLoop(balance, payment, monthlyRate, lo, mid)
         IN  IF left = left
             THEN ElapsedLoop(left, payment, monthlyRate, mid, hi)
             ELSE balance

\* The derived monthly costs that end a successful parseConfig.
DerivedCosts(c) ==
    LET totalAnnualExpenses == c.annualInsurance + c.annualTaxes
        monthlyRecurringExpenses ==
            MulFrac(totalAnnualExpenses, 1, 12) + c.monthlyExpenses
        monthlyRentingExpenses ==
            MulFrac(c.annualRentCosts, 1, 12) + MulFrac(c.otherAnnualCosts, 1, 12)
    IN  [c EXCEPT
           !.totalMonthlyBuyingCost = c.monthlyLoanPayment + monthlyRecurringExpenses,
           !.totalMonthlyRentingCost = c.monthlyRent + monthlyRentingExpenses]

NoLoan(c) ==
    [c EXCEPT !.annualRate = 0, !.totalMonths = 0, !.monthlyRate = 0,
              !.monthlyLoanPayment = 0]

\* SELL vs KEEP with a loan, once the balance left today is known: the
\* payment is recalculated on it over the remaining term.
RemainingLoan(c, remainingLoanMonths, remainingBalance) ==
    [c EXCEPT !.monthlyRate = c.annualRate,
              !.totalMonths = remainingLoanMonths,
              !.monthlyLoanPayment =
                  calculateMonthlyPayment(remainingBalance, c.annualRate,
                                          remainingLoanMonths).v,
              !.downpayment = c.currentMarketValue - remainingBalance,
              !.loanAmount = remainingBalance]

\* SELL vs KEEP with a loan, from the original loan term on.
SellLoan(c, originalLoanMonths, remainingLoanMonths) ==
    IF originalLoanMonths.err THEN [err |-> "invalid loan term", config |-> c]
    ELSE IF remainingLoanMonths.err
    THEN [err |-> "invalid remaining loan term", config |-> c]
    ELSE [err |-> NoError,
          config |->
            RemainingLoan(c, remainingLoanMonths.value,
                ElapsedLoop(c.loanAmount,
                    calculateMonthlyPayment(c.loanAmount, c.annualRate,
                                            originalLoanMonths.value).v,
                    c.annualRate, 0,
                    originalLoanMonths.value - remainingLoanMonths.value))]

\* The SELL vs KEEP branch of parseConfig.
ParseSellVsKeep(c0, inputs) ==
    LET cmv  == getFloatValue(inputs, "current_market_value")
        c1   == [c0 EXCEPT !.currentMarketValue = cmv.value]
        rate == getFloatValue(inputs, "loan_rate")
    IN  IF cmv.err \/ cmv.value = 0
        THEN [err |-> "invalid current market value - cannot be zero", config |-> c1]
        ELSE IF c0.loanAmount > 0
        THEN IF rate.err
             THEN [err |-> "invalid loan rate",
                   config |-> [c1 EXCEPT !.annualRate = rate.value]]
             ELSE SellLoan([c1 EXCEPT !.annualRate = rate.value],
                           getIntValue(inputs, "loan_term"),
                           getIntValue(inputs, "remaining_loan_term"))
        ELSE [err |-> NoError,
              config |-> [NoLoan(c1) EXCEPT !.downpayment = cmv.value,
                                            !.loanAmount = 0]]

\* BUY vs RENT with a loan, from the loan term on.
BuyLoan(c, term) ==
    IF term.err
    THEN [err |-> "invalid loan term", config |-> [c EXCEPT !.totalMonths = term.value]]
    ELSE [err |-> NoError,
          config |->
            [c EXCEPT !.totalMonths = term.value,
                      !.monthlyRate = c.annualRate,
                      !.monthlyLoanPayment =
                          calculateMonthlyPayment(c.loanAmount, c.annualRate,
                                                  term.value).v]]

\* The BUY vs RENT branch of parseConfig.
ParseBuyVsRent(c0, inputs) ==
    LET c1   == [c0 EXCEPT !.downpayment = c0.purchasePrice - c0.loanAmount]
        rate == getFloatValue(inputs, "loan_rate")
    IN  IF c0.loanAmount > 0
        THEN IF rate.err
             THEN [err |-> "invalid loan rate",
                   config |-> [c1 EXCEPT !.annualRate = rate.value]]
             ELSE BuyLoan([c1 EXCEPT !.annualRate = rate.value],
                          getIntValue(inputs, "loan_term"))
        ELSE [err |-> NoError, config |-> NoLoan(c1)]

\* The end of parseConfig: the scenario branch returned sc.
ParseEnd(g, sc) ==
    IF sc.err # NoError THEN [err |-> sc.err, g |-> [g EXCEPT !.config = sc.config]]
    ELSE [err |-> NoError, g |-> [g EXCEPT !.config = DerivedCosts(sc.config)]]

\* parseConfig from the scenario branch on; p is what the common
\* assignments returned.
ParseScenario(p, inputs, sellVsKeep) ==
    IF p.err # NoError THEN p
    ELSE ParseEnd(p.g, IF sellVsKeep THEN ParseSellVsKeep(p.g.config, inputs)
                       ELSE ParseBuyVsRent(p.g.config, inputs))

\* parseConfig: every assignment lands in the global state as it is made,
\* so an early return leaves the fields set so far.
parseConfig(g, inputs, sellVsKeep) ==
    ParseScenario(ParseFields(g, inputs, CommonFields), inputs, sellVsKeep)

\* ------------------------------------------------------------------------
\* populateMonthlyCosts and calculateKeepInvestmentTracking
\* ------------------------------------------------------------------------

\* A Go slice s is held as a sequence: s[i] is At(s, i), len(s) is Len(s).
At(s, i) == s[i + 1]

Put(s, i, v) == [s EXCEPT ![i + 1] = v]

\* make([]float64, n): n zeros.
RECURSIVE make(_)
make(n) ==
    IF n <= 0 THEN <<>>
    ELSE IF n = 1 THEN <<0>>
    ELSE make(n \div 2) \o make(n - n \div 2)

InRange(s, i) == 0 <= i /\ i < Len(s)

\* The whole payment counted as principal paid.
PopulateStepPaymentAsPrincipal(st, i, c) ==
    LET inflate == i > 0 /\ i % 12 = 0
        currentRentingCost ==
            IF inflate THEN Grow(st.currentRentingCost, c.inflationRate, PercentDen)
            ELSE st.currentRentingCost
        currentRecurringExpenses ==
            IF inflate
            THEN Grow(st.currentRecurringExpenses, c.inflationRate, PercentDen)
            ELSE st.currentRecurringExpenses
        interestPayment == MulFrac(st.currentBalance, c.monthlyRate, MonthlyDen)
        principalPayment == c.monthlyLoanPayment - interestPayment
    IN  IF i < c.totalMonths
        THEN [currentRentingCost |-> currentRentingCost,
              currentRecurringExpenses |-> currentRecurringExpenses,
              currentBalance |-> st.currentBalance - principalPayment,
              totalPrincipalPaid |-> st.totalPrincipalPaid + c.monthlyLoanPayment,
              totalInterestPaid |-> st.totalInterestPaid + interestPayment,
              monthlyRentingCosts |-> Put(st.monthlyRentingCosts, i, currentRentingCost),
              monthlyBuyingCosts |->
                  Put(st.monthlyBuyingCosts, i,
                      c.monthlyLoanPayment + currentRecurringExpenses),
              remainingLoanBalance |->
                  Put(st.remainingLoanBalance, i, st.currentBalance - principalPayment),
              cumulativePrincipalPaid |->
                  Put(st.cumulativePrincipalPaid, i,
                      st.totalPrincipalPaid + c.monthlyLoanPayment),
              cumulativeInterestPaid |->
                  Put(st.cumulativeInterestPaid, i,
                      st.totalInterestPaid + interestPayment)]
        ELSE [st EXCEPT
                !.currentRentingCost = currentRentingCost,
                !.currentRecurringExpenses = currentRecurringExpenses,
                !.monthlyRentingCosts = Put(@, i, currentRentingCost),
                !.monthlyBuyingCosts = Put(@, i, currentRecurringExpenses),
                !.remainingLoanBalance = Put(@, i, 0),
                !.cumulativePrincipalPaid = Put(@, i, st.totalPrincipalPaid),
                !.cumulativeInterestPaid = Put(@, i, st.totalInterestPaid)]

\* The loan paid through month index totalMonths, one month too many.
PopulateStepThroughTerm(st, i, c) ==
    LET inflate == i > 0 /\ i % 12 = 0
        currentRentingCost ==
            IF inflate THEN Grow(st.currentRentingCost, c.inflationRate, PercentDen)
            ELSE st.currentRentingCost
        currentRecurringExpenses ==
            IF inflate
            THEN Grow(st.currentRecurringExpenses, c.inflationRate, PercentDen)
            ELSE st.currentRecurringExpenses
        interestPayment == MulFrac(st.currentBalance, c.monthlyRate, MonthlyDen)
        principalPayment == c.monthlyLoanPayment - interestPayment
    IN  IF i <= c.totalMonths
        THEN [currentRentingCost |-> currentRentingCost,
              currentRecurringExpenses |-> currentRecurringExpenses,
              currentBalance |-> st.currentBalance - principalPayment,
              totalPrincipalPaid |-> st.totalPrincipalPaid + principalPayment,
              totalInterestPaid |-> st.totalInterestPaid + interestPayment,
              monthlyRentingCosts |-> Put(st.monthlyRentingCosts, i, currentRentingCost),
              monthlyBuyingCosts |->
                  Put(st.monthlyBuyingCosts, i,
                      c.monthlyLoanPayment + currentRecurringExpenses),
              remainingLoanBalance |->
                  Put(st.remainingLoanBalance, i, st.currentBalance - principalPayment),
              cumulativePrincipalPaid |->
                  Put(st.cumulativePrincipalPaid, i,
                      st.totalPrincipalPaid + principalPayment),
              cumulativeInterestPaid |->
                  Put(st.cumulativeInterestPaid, i,
                      st.totalInterestPaid + interestPayment)]
        ELSE [st EXCEPT
                !.currentRentingCost = currentRentingCost,
                !.currentRecurringExpenses = currentRecurringExpenses,
                !.monthlyRentingCosts = Put(@, i, currentRentingCost),
                !.monthlyBuyingCosts = Put(@, i, currentRecurringExpenses),
                !.remainingLoanBalance = Put(@, i, 0),
                !.cumulativePrincipalPaid = Put(@, i, st.totalPrincipalPaid),
                !.cumulativeInterestPaid = Put(@, i, st.totalInterestPaid)]

\* One iteration of the loop of populateMonthlyCosts; st holds the loop's
\* local variables and the five slices being filled.
PopulateStep(st, i, c) ==
    LET inflate == i > 0 /\ i % 12 = 0
        currentRentingCost ==
            IF inflate THEN Grow(st.currentRentingCost, c.inflationRate, PercentDen)
            ELSE st.currentRentingCost
        currentRecurringExpenses ==
            IF inflate
            THEN Grow(st.currentRecurringExpenses, c.inflationRate, PercentDen)
            ELSE st.currentRecurringExpenses
        interestPayment == MulFrac(st.currentBalance, c.monthlyRate, MonthlyDen)
        principalPayment == c.monthlyLoanPayment - interestPayment
    IN  IF i < c.totalMonths
        THEN [currentRentingCost |-> currentRentingCost,
              currentRecurringExpenses |-> currentRecurringExpenses,
              currentBalance |-> st.currentBalance - principalPayment,
              totalPrincipalPaid |-> st.totalPrincipalPaid + principalPayment,
              totalInterestPaid |-> st.totalInterestPaid + interestPayment,
              monthlyRentingCosts |-> Put(st.monthlyRentingCosts, i, currentRentingCost),
              monthlyBuyingCosts |->
                  Put(st.monthlyBuyingCosts, i,
                      c.monthlyLoanPayment + currentRecurringExpenses),
              remainingLoanBalance |->
                  Put(st.remainingLoanBalance, i, st.currentBalance - principalPayment),
              cumulativePrincipalPaid |->
                  Put(st.cumulativePrincipalPaid, i,
                      st.totalPrincipalPaid + principalPayment),
              cumulativeInterestPaid |->
                  Put(st.cumulativeInterestPaid, i,
                      st.totalInterestPaid + interestPayment)]
        ELSE [st EXCEPT
                !.currentRentingCost = currentRentingCost,
                !.currentRecurringExpenses = currentRecurringExpenses,
                !.monthlyRentingCosts = Put(@, i, currentRentingCost),
                !.monthlyBuyingCosts = Put(@, i, currentRecurringExpenses),
                !.remainingLoanBalance = Put(@, i, 0),
                !.cumulativePrincipalPaid = Put(@, i, st.totalPrincipalPaid),
                !.cumulativeInterestPaid = Put(@, i, st.totalInterestPaid)]

\* for i := lo; i < hi; i++ { PopulateStep }
RECURSIVE PopulateLoop(_, _, _, _)
PopulateLoop(st, c, lo, hi) ==
    IF hi <= lo THEN st
    ELSE IF hi = lo + 1 THEN PopulateStep(st, lo, c)
    ELSE LET mid  == (lo + hi) \div 2
             left == PopulateLoop(st, c, lo, mid)
         IN  IF left.currentBalance = left.currentBalance
             THEN PopulateLoop(left, c, mid, hi)
             ELSE st

\* The iteration with the month's growth left out whenever a cost was drawn.
KeepStepGrownOnIncomeOnly(st, i, c, buyingCosts) ==
    LET monthlyCost == At(buyingCosts, i)
        covered == st.investmentValue >= monthlyCost
        afterCost ==
            IF monthlyCost < 0 THEN st.investmentValue + (-monthlyCost)
            ELSE IF monthlyCost > 0
            THEN IF covered THEN st.investmentValue - monthlyCost ELSE 0
            ELSE st.investmentValue
        totalRealCosts ==
            IF monthlyCost > 0 /\ ~covered
            THEN st.totalRealCosts + (monthlyCost - st.investmentValue)
            ELSE st.totalRealCosts
        investmentValue ==
            IF monthlyCost > 0 THEN afterCost
            ELSE Grow(afterCost, c.investmentReturnRate, MonthlyDen)
    IN  [investmentValue |-> investmentValue,
         totalRealCosts |-> totalRealCosts,
         monthlyKeepInvestmentValue |->
             Put(st.monthlyKeepInvestmentValue, i, investmentValue),
         monthlyKeepRealCosts |-> Put(st.monthlyKeepRealCosts, i, totalRealCosts),
         monthlyKeepNetPosition |->
             Put(st.monthlyKeepNetPosition, i, investmentValue - totalRealCosts)]

\* The iteration with a month's income paying the real cost back.
KeepStepIncomeRepaysCosts(st, i, c, buyingCosts) ==
    LET monthlyCost == At(buyingCosts, i)
        covered == st.investmentValue >= monthlyCost
        afterCost ==
            IF monthlyCost < 0 THEN st.investmentValue + (-monthlyCost)
            ELSE IF monthlyCost > 0
            THEN IF covered THEN st.investmentValue - monthlyCost ELSE 0
            ELSE st.investmentValue
        totalRealCosts ==
            IF monthlyCost > 0 /\ ~covered
            THEN st.totalRealCosts + (monthlyCost - st.investmentValue)
            ELSE IF monthlyCost < 0 THEN st.totalRealCosts + monthlyCost
            ELSE st.totalRealCosts
        investmentValue == Grow(afterCost, c.investmentReturnRate, MonthlyDen)
    IN  [investmentValue |-> investmentValue,
         totalRealCosts |-> totalRealCosts,
         monthlyKeepInvestmentValue |->
             Put(st.monthlyKeepInvestmentValue, i, investmentValue),
         monthlyKeepRealCosts |-> Put(st.monthlyKeepRealCosts, i, totalRealCosts),
         monthlyKeepNetPosition |->
             Put(st.monthlyKeepNetPosition, i, investmentValue - totalRealCosts)]

\* One iteration of the loop of calculateKeepInvestmentTracking.
KeepStep(st, i, c, buyingCosts) ==
    LET monthlyCost == At(buyingCosts, i)
        covered == st.investmentValue >= monthlyCost
        afterCost ==
            IF monthlyCost < 0 THEN st.investmentValue + (-monthlyCost)
            ELSE IF monthlyCost > 0
            THEN IF covered THEN st.investmentValue - monthlyCost ELSE 0
            ELSE st.investmentValue
        totalRealCosts ==
            IF monthlyCost > 0 /\ ~covered
            THEN st.totalRealCosts + (monthlyCost - st.investmentValue)
            ELSE st.totalRealCosts
        investmentValue == Grow(afterCost, c.investmentReturnRate, MonthlyDen)
    IN  [investmentValue |-> investmentValue,
         totalRealCosts |-> totalRealCosts,
         monthlyKeepInvestmentValue |->
             Put(st.monthlyKeepInvestmentValue, i, investmentValue),
         monthlyKeepRealCosts |-> Put(st.monthlyKeepRealCosts, i, totalRealCosts),
         monthlyKeepNetPosition |->
             Put(st.monthlyKeepNetPosition, i, investmentValue - totalRealCosts)]

RECURSIVE KeepLoop(_, _, _, _, _)
KeepLoop(st, c, buyingCosts, lo, hi) ==
    IF hi <= lo THEN st
    ELSE IF hi = lo + 1 THEN KeepStep(st, lo, c, buyingCosts)
    ELSE LET mid  == (lo + hi) \div 2
             left == KeepLoop(st, c, buyingCosts, lo, mid)
         IN  IF left.investmentValue = left.investmentValue
             THEN KeepLoop(left, c, buyingCosts, mid, hi)
             ELSE st

\* The three Keep series of the loop's last state become the globals.
KeepSeries(g, st) ==
    [g EXCEPT !.monthlyKeepInvestmentValue = st.monthlyKeepInvestmentValue,
              !.monthlyKeepRealCosts = st.monthlyKeepRealCosts,
              !.monthlyKeepNetPosition = st.monthlyKeepNetPosition]

\* The three Keep series made and filled one month short.
calculateKeepInvestmentTrackingShort(g, months) ==
    KeepSeries(g, KeepLoop([investmentValue |-> 0, totalRealCosts |-> 0,
                            monthlyKeepInvestmentValue |-> make(months - 1),
                            monthlyKeepRealCosts |-> make(months - 1),
                            monthlyKeepNetPosition |-> make(months - 1)],
                           g.config, g.monthlyBuyingCosts, 0, months - 1))

\* calculateKeepInvestmentTracking: three fresh slices, filled from the
\* buying costs just written.
calculateKeepInvestmentTracking(g, months) ==
    KeepSeries(g, KeepLoop([investmentValue |-> 0, totalRealCosts |-> 0,
                            monthlyKeepInvestmentValue |-> make(months),
                            monthlyKeepRealCosts |-> make(months),
                            monthlyKeepNetPosition |-> make(months)],
                           g.config, g.monthlyBuyingCosts, 0, months))

\* The running totals of principal and interest carried over from the
\* series an earlier call left.
PopulateStartCarriedOver(g) ==
    [currentRentingCost |-> g.config.totalMonthlyRentingCost,
     currentRecurringExpenses |->
         MulFrac(g.config.annualInsurance + g.config.annualTaxes, 1, 12)
         + g.config.monthlyExpenses,
     currentBalance |-> g.config.loanAmount,
     totalPrincipalPaid |->
         IF g.cumulativePrincipalPaid = <<>> THEN 0
         ELSE At(g.cumulativePrincipalPaid, Len(g.cumulativePrincipalPaid) - 1),
     totalInterestPaid |->
         IF g.cumulativeInterestPaid = <<>> THEN 0
         ELSE At(g.cumulativeInterestPaid, Len(g.cumulativeInterestPaid) - 1),
     monthlyBuyingCosts |-> make(maxMonths),
     monthlyRentingCosts |-> make(maxMonths),
     remainingLoanBalance |-> make(maxMonths),
     cumulativePrincipalPaid |-> make(maxMonths),
     cumulativeInterestPaid |-> make(maxMonths)]

\* The renting cost and the recurring expenses inflated once before the
\* first month.
PopulateStartInflated(g) ==
    [currentRentingCost |->
         Grow(g.config.totalMonthlyRentingCost, g.config.inflationRate, PercentDen),
     currentRecurringExpenses |->
         Grow(MulFrac(g.config.annualInsurance + g.config.annualTaxes, 1, 12)
              + g.config.monthlyExpenses,
              g.config.inflationRate, PercentDen),
     currentBalance |-> g.config.loanAmount,
     totalPrincipalPaid |-> 0,
     totalInterestPaid |-> 0,
     monthlyBuyingCosts |-> make(maxMonths),
     monthlyRentingCosts |-> make(maxMonths),
     remainingLoanBalance |-> make(maxMonths),
     cumulativePrincipalPaid |-> make(maxMonths),
     cumulativeInterestPaid |-> make(maxMonths)]

\* The locals and slices of populateMonthlyCosts before its loop: the five
\* slices are made anew, whatever the globals held.
PopulateStart(g) ==
    LET c == g.config
        totalAnnualExpenses == c.annualInsurance + c.annualTaxes
        monthlyRecurringExpenses ==
            MulFrac(totalAnnualExpenses, 1, 12) + c.monthlyExpenses
    IN  [currentRentingCost |-> c.totalMonthlyRentingCost,
         currentRecurringExpenses |-> monthlyRecurringExpenses,
         currentBalance |-> c.loanAmount,
         totalPrincipalPaid |-> 0,
         totalInterestPaid |-> 0,
         monthlyBuyingCosts |-> make(maxMonths),
         monthlyRentingCosts |-> make(maxMonths),
         remainingLoanBalance |-> make(maxMonths),
         cumulativePrincipalPaid |-> make(maxMonths),
         cumulativeInterestPaid |-> make(maxMonths)]

\* The five series of the loop's last state become the globals.
CostSeries(g, st) ==
    [g EXCEPT !.monthlyBuyingCosts = st.monthlyBuyingCosts,
              !.monthlyRentingCosts = st.monthlyRentingCosts,
              !.remainingLoanBalance = st.remainingLoanBalance,
              !.cumulativePrincipalPaid = st.cumulativePrincipalPaid,
              !.cumulativeInterestPaid = st.cumulativeInterestPaid]

\* populateMonthlyCosts: the globals after the call.
populateMonthlyCosts(g) ==
    calculateKeepInvestmentTracking(
        CostSeries(g, PopulateLoop(PopulateStart(g), g.config, 0, maxMonths)),
        maxMonths)

\* ------------------------------------------------------------------------
\* Appreciation
\* ------------------------------------------------------------------------

\* The index wrapped around to the start of the schedule.
ClampHighWrapped(index, length) ==
    IF index >= length THEN index % length ELSE index

\* The index clamped to the last entry of the schedule.
ClampHigh(index, length) == IF index >= length THEN length - 1 ELSE index

\* for year := lo; year < hi; year++ { value *= 1 + rates[clamped year]/100 }
RECURSIVE YearLoop(_, _, _, _)
YearLoop(value, rates, lo, hi) ==
    IF hi <= lo THEN value
    ELSE IF hi = lo + 1
    THEN Grow(value, At(rates, ClampHigh(lo, Len(rates))), PercentDen)
    ELSE LET mid  == (lo + hi) \div 2
             left == YearLoop(value, rates, lo, mid)
         IN  IF left = left THEN YearLoop(left, rates, mid, hi) ELSE value

\* FactorScale as FactorHigh * FactorLow, the split of a factor into two
\* halves that multiply within the integer range.
FactorLow == Scale * Scale

FactorHigh == FactorScale \div FactorLow

\* a * b / FactorScale rounded to nearest for factors a, b >= 0: below
\* 3 * FactorScale by halves, above by long multiplication.
FactorTimes(a, b) ==
    IF a <= 3 * FactorScale /\ b <= 3 * FactorScale
    THEN LET a1 == a \div FactorLow
             a0 == a % FactorLow
             b1 == b \div FactorLow
             b0 == b % FactorLow
         IN  ((a1 * b1) \div FactorHigh) * FactorLow
             + RoundDiv(((a1 * b1) % FactorHigh) * FactorLow
                        + a1 * b0 + a0 * b1 + (a0 * b0) \div FactorLow,
                        FactorHigh)
    ELSE MulDiv(a, b, FactorScale)

FactorSquare(f) == FactorTimes(f, f)

\* y^n at FactorScale, n >= 1, by repeated squaring.
RECURSIVE FactorPower(_, _)
FactorPower(y, n) ==
    IF n = 1 THEN y
    ELSE IF n % 2 = 0 THEN FactorSquare(FactorPower(y, n \div 2))
    ELSE FactorTimes(FactorSquare(FactorPower(y, n \div 2)), y)

\* The least y in lo..hi with y^12 >= target (hi qualifies), by bisection.
RECURSIVE TwelfthRoot(_, _, _)
TwelfthRoot(target, lo, hi) ==
    IF lo >= hi THEN hi
    ELSE IF FactorPower(lo + (hi - lo) \div 2, 12) >= target
    THEN TwelfthRoot(target, lo, lo + (hi - lo) \div 2)
    ELSE TwelfthRoot(target, lo + (hi - lo) \div 2 + 1, hi)

\* base^(n/12) at FactorScale: the twelfth root of base^n lies between 1
\* and base.
RootOfPower(base, n) ==
    TwelfthRoot(FactorPower(base, n), Min(base, FactorScale), Max(base, FactorScale))

\* math.Pow(1 + rate/100, remainingMonths/12) at FactorScale, for
\* rate >= -100 and 0 < remainingMonths < 12.
PartialYearFactor(rate, remainingMonths) ==
    IF rate = 0 THEN FactorScale
    ELSE RootOfPower(Grow(FactorScale, rate, PercentDen), remainingMonths)

\* whole * factor for the partial year.
PartialYear(whole, rates, years, remainingMonths) ==
    IF remainingMonths > 0
    THEN MulDiv(whole,
                PartialYearFactor(At(rates, ClampHigh(years, Len(rates))),
                                  remainingMonths),
                FactorScale)
    ELSE whole

\* The value of startingPrice after months months of the schedule: whole
\* years compounded, then the partial-year factor when months % 12 > 0.
CompoundAppreciation(startingPrice, rates, months) ==
    PartialYear(YearLoop(startingPrice, rates, 0, months \div 12), rates,
                months \div 12, months % 12)

\* ------------------------------------------------------------------------
\* Sale proceeds and net worth
\* ------------------------------------------------------------------------

\* A run-time panic (index out of range) ends the call without a result.
Panic == [panic |-> TRUE]

\* The price appreciation starts from: the current market value when it is
\* positive, else the purchase price.
StartingPrice(c) ==
    IF c.currentMarketValue > 0 THEN c.currentMarketValue ELSE c.purchasePrice

\* The month itself taken as the index, clamped from above.
SaleMonthIndexOfMonth(g, months) ==
    ClampHigh(months, Len(g.remainingLoanBalance))

\* The index calculateSaleProceeds reads in remainingLoanBalance: months - 1,
\* clamped at the top only.
SaleMonthIndex(g, months) == ClampHigh(months - 1, Len(g.remainingLoanBalance))

\* The index calculateSaleProceeds reads in taxFreeLimits.
TaxFreeLimitIndex(limits, months) ==
    ClampHigh(IF months \div 12 - 1 < 0 THEN 0 ELSE months \div 12 - 1, Len(limits))

\* The tax without the floor of the taxable gains at zero.
TaxOnGainsUnfloored(capitalGains, taxFreeLimit, capitalGainsTax) ==
    MulFrac(capitalGains - taxFreeLimit, capitalGainsTax, PercentDen)

\* The tax taken on what the gains fall short of the exemption.
TaxOnGainsBelowLimit(capitalGains, taxFreeLimit, capitalGainsTax) ==
    MulFrac(Max(0, taxFreeLimit - capitalGains), capitalGainsTax, PercentDen)

\* Taxable gains after the exemption, and the tax on them.
TaxOnGains(capitalGains, taxFreeLimit, capitalGainsTax) ==
    MulFrac(Max(0, capitalGains - taxFreeLimit), capitalGainsTax, PercentDen)

\* The staging costs left out of the selling costs.
SaleOutcomeWithoutStaging(c, salePrice, loanPayoff, taxFreeLimit, monthIndex, taxFreeLimitIndex) ==
    [panic |-> FALSE,
     salePrice |-> salePrice,
     totalSellingCosts |-> MulFrac(salePrice, c.agentCommission, PercentDen),
     loanPayoff |-> loanPayoff,
     capitalGains |->
         salePrice - c.purchasePrice
         - MulFrac(salePrice, c.agentCommission, PercentDen),
     taxFreeLimit |-> taxFreeLimit,
     taxOnGains |->
         TaxOnGains(salePrice - c.purchasePrice
                    - MulFrac(salePrice, c.agentCommission, PercentDen),
                    taxFreeLimit, c.capitalGainsTax),
     netProceeds |->
         salePrice - MulFrac(salePrice, c.agentCommission, PercentDen) - loanPayoff
         - TaxOnGains(salePrice - c.purchasePrice
                      - MulFrac(salePrice, c.agentCommission, PercentDen),
                      taxFreeLimit, c.capitalGainsTax),
     monthIndex |-> monthIndex,
     taxFreeLimitIndex |-> taxFreeLimitIndex]

\* calculateSaleProceeds from the agent commission on.
SaleOutcome(c, salePrice, loanPayoff, taxFreeLimit, monthIndex, taxFreeLimitIndex) ==
    LET agentFee == MulFrac(salePrice, c.agentCommission, PercentDen)
        totalSellingCosts == agentFee + c.stagingCosts
        capitalGains == salePrice - c.purchasePrice - totalSellingCosts
        taxOnGains == TaxOnGains(capitalGains, taxFreeLimit, c.capitalGainsTax)
    IN  [panic |-> FALSE,
         salePrice |-> salePrice,
         totalSellingCosts |-> totalSellingCosts,
         loanPayoff |-> loanPayoff,
         capitalGains |-> capitalGains,
         taxFreeLimit |-> taxFreeLimit,
         taxOnGains |-> taxOnGains,
         netProceeds |-> salePrice - totalSellingCosts - loanPayoff - taxOnGains,
         monthIndex |-> monthIndex,
         taxFreeLimitIndex |-> taxFreeLimitIndex]

calculateSaleProceeds(g, months) ==
    IF g.appreciationRates = <<>> /\ months > 0 THEN Panic
    ELSE IF ~InRange(g.remainingLoanBalance, SaleMonthIndex(g, months)) THEN Panic
    ELSE IF ~InRange(g.taxFreeLimits, TaxFreeLimitIndex(g.taxFreeLimits, months))
    THEN Panic
    ELSE SaleOutcome(g.config,
                     CompoundAppreciation(StartingPrice(g.config),
                                          g.appreciationRates, months),
                     At(g.remainingLoanBalance, SaleMonthIndex(g, months)),
                     At(g.taxFreeLimits, TaxFreeLimitIndex(g.taxFreeLimits, months)),
                     SaleMonthIndex(g, months),
                     TaxFreeLimitIndex(g.taxFreeLimits, months))

\* s[lo] + ... + s[hi-1].
RECURSIVE SumRange(_, _, _)
SumRange(s, lo, hi) ==
    IF hi <= lo THEN 0
    ELSE IF hi = lo + 1 THEN At(s, lo)
    ELSE SumRange(s, lo, (lo + hi) \div 2) + SumRange(s, (lo + hi) \div 2, hi)

\* for i := 0; i < months; i++ { total += s[i] }: the loop runs off the end
\* of the slice when months exceeds its length.
SumFirst(s, months) ==
    IF months > Len(s) THEN Panic
    ELSE [panic |-> FALSE, total |-> SumRange(s, 0, months)]

\* calculateNetWorth when selling is included: the net proceeds of the sale.
NetWorthSelling(assetValue, totalExpenditure, sale) ==
    IF sale.panic THEN Panic
    ELSE [panic |-> FALSE, assetValue |-> assetValue,
          totalExpenditure |-> totalExpenditure,
          netWorth |-> sale.netProceeds, lastIndex |-> sale.monthIndex]

\* The money spent so far taken off the net worth as well.
NetWorthHoldingLessExpenditure(assetValue, totalExpenditure, loanBalance, monthIndex) ==
    [panic |-> FALSE, assetValue |-> assetValue,
     totalExpenditure |-> totalExpenditure,
     netWorth |-> assetValue - loanBalance - totalExpenditure,
     lastIndex |-> monthIndex]

\* calculateNetWorth otherwise: asset value minus loan balance.
NetWorthHolding(assetValue, totalExpenditure, loanBalance, monthIndex) ==
    [panic |-> FALSE, assetValue |-> assetValue,
     totalExpenditure |-> totalExpenditure,
     netWorth |-> assetValue - loanBalance, lastIndex |-> monthIndex]

calculateNetWorth(g, months) ==
    IF g.appreciationRates = <<>> /\ months > 0 THEN Panic
    ELSE IF months > Len(g.monthlyBuyingCosts) THEN Panic
    ELSE IF g.config.includeSelling > 0
    THEN NetWorthSelling(
             CompoundAppreciation(g.config.purchasePrice, g.appreciationRates, months),
             g.config.downpayment + SumRange(g.monthlyBuyingCosts, 0, months),
             calculateSaleProceeds(g, months))
    ELSE IF ~InRange(g.remainingLoanBalance, SaleMonthIndex(g, months)) THEN Panic
    ELSE NetWorthHolding(
             CompoundAppreciation(g.config.purchasePrice, g.appreciationRates, months),
             g.config.downpayment + SumRange(g.monthlyBuyingCosts, 0, months),
             At(g.remainingLoanBalance, SaleMonthIndex(g, months)),
             SaleMonthIndex(g, months))

\* The month's savings added after the growth instead of before it.
RentingStepGrowFirst(value, savings, rate) ==
    Grow(value, rate, MonthlyDen) + savings

\* The monthly growth applied twice.
RentingStepGrownTwice(value, savings, rate) ==
    Grow(Grow(value + savings, rate, MonthlyDen), rate, MonthlyDen)

\* One month of calculateRentingNetWorth: add the month's savings, then
\* grow by the monthly return.
RentingStep(value, savings, rate) == Grow(value + savings, rate, MonthlyDen)

\* The loop of calculateRentingNetWorth.
RECURSIVE RentingLoop(_, _, _, _, _)
RentingLoop(value, g, rate, lo, hi) ==
    IF hi <= lo THEN value
    ELSE IF hi = lo + 1
    THEN RentingStep(value,
                     At(g.monthlyBuyingCosts, lo) - At(g.monthlyRentingCosts, lo),
                     rate)
    ELSE LET mid  == (lo + hi) \div 2
             left == RentingLoop(value, g, rate, lo, mid)
         IN  IF left = left THEN RentingLoop(left, g, rate, mid, hi) ELSE value

\* The whole deposit taken as recoverable.
RecoverableDepositInFull(c) == c.rentDeposit

\* 75% of the deposit is recoverable.
RecoverableDeposit(c) == MulFrac(c.rentDeposit, 75, 100)

RentingOutcome(investmentValue, deposit, lastIndex) ==
    [panic |-> FALSE, investmentValue |-> investmentValue,
     netWorth |-> investmentValue + deposit, lastIndex |-> lastIndex]

calculateRentingNetWorth(g, months) ==
    IF months > Len(g.monthlyBuyingCosts) \/ months > Len(g.monthlyRentingCosts)
    THEN Panic
    ELSE RentingOutcome(RentingLoop(g.config.downpayment - g.config.rentDeposit, g,
                                    g.config.investmentReturnRate, 0, months),
                        RecoverableDeposit(g.config), months - 1)

\* The loops of calculateSellNetWorth: with renting, subtract the month's
\* renting cost and grow; without, only grow.
RECURSIVE SellLoop(_, _, _, _, _, _)
SellLoop(value, g, rate, includeRenting, lo, hi) ==
    IF hi <= lo THEN value
    ELSE IF hi = lo + 1
    THEN Grow(IF includeRenting THEN value - At(g.monthlyRentingCosts, lo) ELSE value,
              rate, MonthlyDen)
    ELSE LET mid  == (lo + hi) \div 2
             left == SellLoop(value, g, rate, includeRenting, lo, mid)
         IN  IF left = left THEN SellLoop(left, g, rate, includeRenting, mid, hi)
             ELSE value

\* The rental deposit never taken out of the proceeds invested.
SellOutcomeKeepingDeposit(g, netProceeds, includeRenting, months) ==
    IF includeRenting
    THEN IF months > Len(g.monthlyRentingCosts) THEN Panic
         ELSE [panic |-> FALSE, netProceeds |-> netProceeds,
               netWorth |->
                   SellLoop(netProceeds, g, g.config.investmentReturnRate,
                            TRUE, 0, months)
                   + RecoverableDeposit(g.config),
               lastIndex |-> months - 1]
    ELSE [panic |-> FALSE, netProceeds |-> netProceeds,
          netWorth |-> SellLoop(netProceeds, g, g.config.investmentReturnRate,
                                FALSE, 0, months),
          lastIndex |-> -1]

\* calculateSellNetWorth once the net proceeds of selling today are known.
SellOutcome(g, netProceeds, includeRenting, months) ==
    IF includeRenting
    THEN IF months > Len(g.monthlyRentingCosts) THEN Panic
         ELSE [panic |-> FALSE, netProceeds |-> netProceeds,
               netWorth |->
                   SellLoop(netProceeds - g.config.rentDeposit, g,
                            g.config.investmentReturnRate, TRUE, 0, months)
                   + RecoverableDeposit(g.config),
               lastIndex |-> months - 1]
    ELSE [panic |-> FALSE, netProceeds |-> netProceeds,
          netWorth |-> SellLoop(netProceeds, g, g.config.investmentReturnRate,
                                FALSE, 0, months),
          lastIndex |-> -1]

calculateSellNetWorth(g, inputs, months) ==
    LET c == g.config
        salePrice == c.currentMarketValue
        agentFee == MulFrac(salePrice, c.agentCommission, PercentDen)
        totalSellingCosts == agentFee + c.stagingCosts
        loanPayoff == c.loanAmount
        capitalGains == salePrice - c.purchasePrice - totalSellingCosts
        taxOnGains == TaxOnGains(capitalGains, At(g.taxFreeLimits, 0), c.capitalGainsTax)
    IN  IF g.taxFreeLimits = <<>> THEN Panic
        ELSE SellOutcome(g, salePrice - totalSellingCosts - loanPayoff - taxOnGains,
                         getFloatValue(inputs, "include_renting_sell").value > 0,
                         months)

\* The net position taken off the proceeds instead of added to them.
KeepOutcomeLessPosition(g, sale, monthIndex) ==
    IF sale.panic THEN Panic
    ELSE IF ~InRange(g.monthlyKeepNetPosition, monthIndex) THEN Panic
    ELSE [panic |-> FALSE, netProceeds |-> sale.netProceeds,
          netPosition |-> At(g.monthlyKeepNetPosition, monthIndex),
          netWorth |-> sale.netProceeds - At(g.monthlyKeepNetPosition, monthIndex),
          lastIndex |-> monthIndex]

\* calculateKeepNetWorth once the sale at months is calculated.
KeepOutcome(g, sale, monthIndex) ==
    IF sale.panic THEN Panic
    ELSE IF ~InRange(g.monthlyKeepNetPosition, monthIndex) THEN Panic
    ELSE [panic |-> FALSE, netProceeds |-> sale.netProceeds,
          netPosition |-> At(g.monthlyKeepNetPosition, monthIndex),
          netWorth |-> sale.netProceeds + At(g.monthlyKeepNetPosition, monthIndex),
          lastIndex |-> monthIndex]

calculateKeepNetWorth(g, months) ==
    KeepOutcome(g, calculateSaleProceeds(g, months),
                ClampHigh(IF months - 1 < 0 THEN 0 ELSE months - 1,
                          Len(g.monthlyKeepNetPosition)))

\* ------------------------------------------------------------------------
\* getPeriods and the expenditure table
\* ------------------------------------------------------------------------

basePeriods == <<12, 24, 36, 48, 60, 72, 84, 96, 108, 120>>

extendedPeriods == <<180, 240, 360>>

\* The loop of getPeriods over the standard periods: the loan term is put
\* before the first longer period, or replaces the period it equals.
RECURSIVE InsertLoanTerm(_, _, _, _, _)
InsertLoanTerm(standard, loanDuration, includeLoanTerm, inserted, periods) ==
    IF standard = <<>>
    THEN IF includeLoanTerm /\ ~inserted THEN Append(periods, loanDuration)
         ELSE periods
    ELSE LET period == Head(standard)
             before == includeLoanTerm /\ ~inserted /\ loanDuration < period
             same   == period = loanDuration /\ includeLoanTerm
             p1     == IF before THEN Append(periods, loanDuration) ELSE periods
         IN  InsertLoanTerm(Tail(standard), loanDuration, includeLoanTerm,
                            inserted \/ before \/ same,
                            Append(p1, IF same THEN loanDuration ELSE period))

\* getPeriods: the months of the periods shown, in order.
getPeriods(loanDuration, include30Year) ==
    InsertLoanTerm(IF include30Year THEN basePeriods \o extendedPeriods
                   ELSE basePeriods,
                   loanDuration,
                   loanDuration > 0 /\ loanDuration % 12 = 0,
                   FALSE, <<>>)

\* The rows of displayExpenditureTable: for every period the buying and the
\* renting expenditure, each a sum over the first period.months entries.
RECURSIVE ExpenditureRows(_, _, _)
ExpenditureRows(g, periods, rows) ==
    IF periods = <<>> THEN [panic |-> FALSE, rows |-> rows]
    ELSE LET months == Head(periods)
             buying == SumFirst(g.monthlyBuyingCosts, months)
             renting == SumFirst(g.monthlyRentingCosts, months)
         IN  IF buying.panic \/ renting.panic THEN Panic
             ELSE ExpenditureRows(g, Tail(periods),
                      Append(rows,
                             [months |-> months,
                              buyingExpenditure |-> g.config.downpayment + buying.total,
                              rentingExpenditure |-> g.config.rentDeposit + renting.total]))

displayExpenditureTable(g) ==
    ExpenditureRows(g, getPeriods(g.config.totalMonths, g.config.include30Year > 0),
                    <<>>)

\* ------------------------------------------------------------------------
\* The interactive form (form.go)
\* ------------------------------------------------------------------------

\* makeField and makeToggleField: a field of a group.
makeField(key) == [Key |-> key, IsToggle |-> FALSE]

makeToggleField(key) == [Key |-> key, IsToggle |-> TRUE]

\* The field groups NewFormModel creates, in order.
groups ==
    << [Name |-> "SCENARIO SELECTION", Scenario |-> "both",
        Fields |-> << makeToggleField("scenario_buy_vs_rent"),
                      makeToggleField("scenario_sell_vs_keep") >>],
       [Name |-> "ECONOMIC ASSUMPTIONS", Scenario |-> "both",
        Fields |-> << makeField("inflation_rate"),
                      makeToggleField("include_30year") >>],
       [Name |-> "BUYING", Scenario |-> "buy_vs_rent",
        Fields |-> << makeField("purchase_price"), makeField("loan_amount"),
                      makeField("loan_rate"), makeField("loan_term"),
                      makeField("annual_insurance"), makeField("annual_taxes"),
                      makeField("monthly_expenses"),
                      makeField("appreciation_rate") >>],
       [Name |-> "ASSET", Scenario |-> "sell_vs_keep",
        Fields |-> << makeField("purchase_price"),
                      makeField("current_market_value"),
                      makeField("remaining_loan_amount"), makeField("loan_rate"),
                      makeField("loan_term"), makeField("remaining_loan_term"),
                      makeField("annual_insurance"), makeField("annual_taxes"),
                      makeField("monthly_expenses"),
                      makeField("appreciation_rate") >>],
       [Name |-> "RENTING", Scenario |-> "buy_vs_rent",
        Fields |-> << makeField("rent_deposit"), makeField("monthly_rent"),
                      makeField("annual_rent_costs"),
                      makeField("other_annual_costs"),
                      makeField("investment_return_rate") >>],
       [Name |-> "INVESTING", Scenario |-> "sell_vs_keep",
        Fields |-> << makeToggleField("include_renting_sell"),
                      makeField("rent_deposit"), makeField("monthly_rent"),
                      makeField("annual_rent_costs"),
                      makeField("investment_return_rate") >>],
       [Name |-> "SELLING", Scenario |-> "both",
        Fields |-> << makeToggleField("include_selling"),
                      makeField("agent_commission"), makeField("staging_costs"),
                      makeField("tax_free_limit"),
                      makeField("capital_gains_tax") >>] >>

\* The groups' fields in one sequence, as the loop of NewFormModel appends
\* them.
RECURSIVE Flattened(_)
Flattened(gs) ==
    IF gs = <<>> THEN <<>> ELSE Head(gs).Fields \o Flattened(Tail(gs))

\* fieldsMap[key]: the first field made with the key; later fields of the
\* same key are this one instance.
fieldsMap(key) ==
    LET all == Flattened(groups)
    IN  all[CHOOSE i \in 1..Len(all) :
                /\ all[i].Key = key
                /\ \A j \in 1..(i - 1) : all[j].Key # key]

\* m.fields[i], 0-based: the instance its key names.
fields(i) == fieldsMap(At(Flattened(groups), i).Key)

\* len(m.fields)
NumFields == Len(Flattened(groups))

Keys == {fields(i).Key : i \in 0..(NumFields - 1)}

ToggleKeys == {k \in Keys : fieldsMap(k).IsToggle}

InputKeys == Keys \ ToggleKeys

\* Text a field holds: a sequence of characters.
Chars(a) == <<a>>

\* val == "1" || val == "yes" || val == "true"
Truthy(val) == val \in {<<"1">>, <<"y", "e", "s">>, <<"t", "r", "u", "e">>}

\* NewFormModel: BUY vs RENT is selected unless the defaults select SELL
\* vs KEEP; the other toggles and the inputs take their saved defaults;
\* the first field has the focus.
NewFormModel(defaults) ==
    LET sellVsKeepSelected ==
            /\ "scenario_sell_vs_keep" \in DOMAIN defaults
            /\ Truthy(defaults["scenario_sell_vs_keep"])
    IN  [Toggled |->
             [k \in ToggleKeys |->
                 IF k = "scenario_buy_vs_rent" THEN ~sellVsKeepSelected
                 ELSE IF k = "scenario_sell_vs_keep" THEN sellVsKeepSelected
                 ELSE k \in DOMAIN defaults /\ Truthy(defaults[k])],
         Input |->
             [k \in InputKeys |->
                 IF k \in DOMAIN defaults THEN defaults[k] ELSE <<>>],
         currentField |-> 0,
         submitted |-> FALSE,
         quit |-> FALSE,
         values |-> <<>>]

\* The group the field at fieldIndex was made in (the counting loop of
\* isFieldVisible).
RECURSIVE GroupOfIndex(_, _)
GroupOfIndex(gs, fieldIndex) ==
    IF fieldIndex < Len(Head(gs).Fields) THEN Head(gs)
    ELSE GroupOfIndex(Tail(gs), fieldIndex - Len(Head(gs).Fields))

selectedScenario(m) ==
    IF m.Toggled["scenario_sell_vs_keep"] THEN "sell_vs_keep" ELSE "buy_vs_rent"

isFieldVisible(m, fieldIndex) ==
    IF fieldIndex < 0 \/ fieldIndex >= NumFields THEN FALSE
    ELSE GroupOfIndex(groups, fieldIndex).Scenario \in {"both", selectedScenario(m)}

\* Update, "ctrl+t" with only the SELL vs KEEP toggle flipped.
UpdateCtrlTOneSided(m) ==
    [m EXCEPT !.Toggled["scenario_sell_vs_keep"] = ~@]

\* Update, "ctrl+t": both scenario toggles flip.
UpdateCtrlT(m) ==
    [m EXCEPT !.Toggled["scenario_buy_vs_rent"] = ~@,
              !.Toggled["scenario_sell_vs_keep"] = ~@]

\* Update, "ctrl+k": every field's value is saved and the form submitted.
UpdateCtrlK(m) ==
    [m EXCEPT !.values =
                  [k \in Keys |->
                      IF fieldsMap(k).IsToggle
                      THEN IF m.Toggled[k] THEN Chars("1") ELSE Chars("0")
                      ELSE m.Input[k]],
              !.submitted = TRUE]

\* Update, "up" and "shift+tab": back to the previous visible field,
\* stopping at the first field.
RECURSIVE PreviousVisible(_, _)
PreviousVisible(m, currentField) ==
    IF currentField - 1 < 0 THEN 0
    ELSE IF isFieldVisible(m, currentField - 1) THEN currentField - 1
    ELSE PreviousVisible(m, currentField - 1)

UpdateUp(m) == [m EXCEPT !.currentField = PreviousVisible(m, @)]

\* Update, "down" and "tab": on to the next visible field, stopping at the
\* last field.
RECURSIVE NextVisible(_, _)
NextVisible(m, currentField) ==
    IF currentField + 1 >= NumFields THEN NumFields - 1
    ELSE IF isFieldVisible(m, currentField + 1) THEN currentField + 1
    ELSE NextVisible(m, currentField + 1)

UpdateDown(m) == [m EXCEPT !.currentField = NextVisible(m, @)]

\* The focused input takes a key: a character is appended up to CharLimit.
CharLimit == 32

InputUpdate(m, char) ==
    IF fields(m.currentField).IsToggle THEN m
    ELSE IF Len(m.Input[fields(m.currentField).Key]) >= CharLimit THEN m
    ELSE [m EXCEPT !.Input[fields(m.currentField).Key] = Append(@, char)]

\* Update, " " and "enter": a scenario toggle selects its scenario and
\* clears the other; any other toggle flips; on an input the key goes to
\* the input, where enter types nothing.
UpdateSpaceOrEnter(m, key) ==
    LET currentKey == fields(m.currentField).Key
    IN  IF fields(m.currentField).IsToggle
        THEN IF currentKey \in {"scenario_buy_vs_rent", "scenario_sell_vs_keep"}
             THEN [m EXCEPT
                     !.Toggled["scenario_buy_vs_rent"] =
                         (currentKey = "scenario_buy_vs_rent"),
                     !.Toggled["scenario_sell_vs_keep"] =
                         (currentKey = "scenario_sell_vs_keep")]
             ELSE [m EXCEPT !.Toggled[currentKey] = ~@]
        ELSE IF key = " " THEN InputUpdate(m, " ") ELSE m

\* Update, "ctrl+c" and "esc".
UpdateQuit(m) == [m EXCEPT !.quit = TRUE]

\* ------------------------------------------------------------------------
\* Inputs
\* ------------------------------------------------------------------------

\* Runs of parseConfig in one process, and calls of populateMonthlyCosts
\* in one run.
MaxRuns == 2

MaxPopulateCalls == 2

\* The months the calculations are asked for.
Months == {0, 1, 12, 13, 24, 36, 120, 360, 361, 480}

\* Text that parses to n / 100.
Hundredths(n) == [Text(0) EXCEPT !.digits = n]

NoInputs ==
    [inflation_rate |-> EmptyText, include_30year |-> EmptyText,
     annual_insurance |-> EmptyText, annual_taxes |-> EmptyText,
     monthly_expenses |-> EmptyText, appreciation_rate |-> <<>>,
     rent_deposit |-> EmptyText, monthly_rent |-> EmptyText,
     annual_rent_costs |-> EmptyText, other_annual_costs |-> EmptyText,
     investment_return_rate |-> EmptyText, include_selling |-> EmptyText,
     agent_commission |-> EmptyText, staging_costs |-> EmptyText,
     tax_free_limit |-> <<>>, capital_gains_tax |-> EmptyText,
     purchase_price |-> EmptyText, loan_amount |-> EmptyText,
     current_market_value |-> EmptyText, loan_rate |-> EmptyText,
     loan_term |-> Duration(Absent, Absent),
     remaining_loan_term |-> Duration(Absent, Absent),
     include_renting_sell |-> EmptyText]

\* A BUY vs RENT form: $500K asset, $400K loan, selling included.
BuyBase ==
    [NoInputs EXCEPT
       !.inflation_rate = Text(3), !.annual_insurance = Text(3000),
       !.annual_taxes = Text(6000), !.monthly_expenses = Text(200),
       !.appreciation_rate = <<Text(3), TextPct(-10), Text(5)>>,
       !.rent_deposit = Text(5000), !.monthly_rent = Text(2500),
       !.annual_rent_costs = Text(600), !.investment_return_rate = Text(6),
       !.include_selling = Text(1), !.agent_commission = Text(6),
       !.staging_costs = TextK(10),
       !.tax_free_limit = <<TextK(20), TextK(50), TextK(100)>>,
       !.capital_gains_tax = Text(20),
       !.purchase_price = TextK(500), !.loan_amount = TextK(400),
       !.loan_rate = Hundredths(650), !.loan_term = Duration(Digits(30), Absent)]

LoanTerms ==
    {Duration(Absent, Digits(1)), Duration(Absent, Digits(7)),
     Duration(Digits(1), Absent), Duration(Digits(30), Absent),
     Duration(Digits(30), Digits(1)), Duration(Digits(40), Absent)}

LoanRates == {Text(0), Text(3), Hundredths(650)}

\* No down payment, no deposit, no inflation: the monthly difference of
\* buying and renting cost is the same in every month of the loan.
BuyConstantSavings ==
    [BuyBase EXCEPT !.inflation_rate = Text(0), !.rent_deposit = EmptyText,
                    !.purchase_price = TextK(300), !.loan_amount = TextK(300),
                    !.monthly_rent = Text(1000),
                    !.include_30year = Text(1), !.include_selling = EmptyText]

BuyInputs ==
    {[BuyBase EXCEPT !.loan_term = t, !.loan_rate = r] :
         t \in LoanTerms, r \in LoanRates}
    \cup {BuyConstantSavings,
          [BuyConstantSavings EXCEPT !.investment_return_rate = Text(0)],
          [BuyBase EXCEPT !.loan_amount = EmptyText, !.include_selling = EmptyText],
          [BuyBase EXCEPT !.appreciation_rate = <<Text(4)>>],
          [BuyBase EXCEPT !.appreciation_rate = <<>>, !.tax_free_limit = <<>>],
          [BuyBase EXCEPT !.purchase_price = TextK(-500)],
          [BuyBase EXCEPT !.purchase_price = Text(0)],
          [BuyBase EXCEPT !.purchase_price = EmptyText],
          [BuyBase EXCEPT !.inflation_rate = BadText],
          [BuyBase EXCEPT !.agent_commission = BadText,
                          !.tax_free_limit = <<BadText>>],
          [BuyBase EXCEPT !.loan_term = Duration(NotANumber, Absent)],
          [BuyBase EXCEPT !.loan_term = Duration(Absent, Absent)],
          [BuyBase EXCEPT !.loan_term = Duration(Digits(0), Absent)],
          [BuyBase EXCEPT !.loan_term = Duration(Digits(1), Digits(-13))]}

\* A SELL vs KEEP form: bought at $500K, worth $800K, 25 of 30 years left.
SellBase ==
    [BuyBase EXCEPT !.current_market_value = TextK(800),
                    !.loan_rate = Text(6),
                    !.remaining_loan_term = Duration(Digits(25), Absent),
                    !.monthly_expenses = Text(-9000),
                    !.include_renting_sell = Text(1)]

SellInputs ==
    {SellBase,
     [SellBase EXCEPT !.monthly_expenses = Text(-4050),
                      !.inflation_rate = Text(-50)],
     [SellBase EXCEPT !.include_renting_sell = EmptyText,
                      !.monthly_expenses = Text(200)],
     [SellBase EXCEPT !.loan_amount = EmptyText, !.include_30year = Text(1)],
     [SellBase EXCEPT !.current_market_value = TextK(-800)],
     [SellBase EXCEPT !.current_market_value = EmptyText],
     [SellBase EXCEPT !.remaining_loan_term = Duration(Absent, Absent)]}

\* The arguments calculateMonthlyPayment is tried on directly.
PaymentPrincipals == {0, 400000 * Scale}

PaymentMonths == {-12, -1, 0, 1, 12, 360}

\* ------------------------------------------------------------------------
\* The process
\* ------------------------------------------------------------------------

VARIABLES
    currentInputs,      \* the form's values
    isSellVsKeep,       \* the scenario main selected
    config, appreciationRates, taxFreeLimits,
    monthlyBuyingCosts, monthlyRentingCosts, remainingLoanBalance,
    cumulativePrincipalPaid, cumulativeInterestPaid,
    monthlyKeepInvestmentValue, monthlyKeepRealCosts, monthlyKeepNetPosition,
    phase,              \* where the run is
    err,                \* the error parseConfig returned
    last,               \* the last call made and what it returned
    runs,               \* runs of parseConfig so far
    populateCalls,      \* calls of populateMonthlyCosts in this run
    repeatIdentical,    \* the last repeated call left every series as it was
    form                \* the FormModel of the interactive form

series ==
    <<monthlyBuyingCosts, monthlyRentingCosts, remainingLoanBalance,
      cumulativePrincipalPaid, cumulativeInterestPaid,
      monthlyKeepInvestmentValue, monthlyKeepRealCosts, monthlyKeepNetPosition>>

globals == <<config, appreciationRates, taxFreeLimits, series>>

\* The variables of the calculation, which the form never touches.
calculation ==
    <<currentInputs, isSellVsKeep, globals, phase, err, last, runs,
      populateCalls, repeatIdentical>>

vars == <<calculation, form>>

\* The package-level variables as one value.
Globals ==
    [config |-> config,
     appreciationRates |-> appreciationRates, taxFreeLimits |-> taxFreeLimits,
     monthlyBuyingCosts |-> monthlyBuyingCosts,
     monthlyRentingCosts |-> monthlyRentingCosts,
     remainingLoanBalance |-> remainingLoanBalance,
     cumulativePrincipalPaid |-> cumulativePrincipalPaid,
     cumulativeInterestPaid |-> cumulativeInterestPaid,
     monthlyKeepInvestmentValue |-> monthlyKeepInvestmentValue,
     monthlyKeepRealCosts |-> monthlyKeepRealCosts,
     monthlyKeepNetPosition |-> monthlyKeepNetPosition]

SeriesOf(g) ==
    <<g.monthlyBuyingCosts, g.monthlyRentingCosts, g.remainingLoanBalance,
      g.cumulativePrincipalPaid, g.cumulativeInterestPaid,
      g.monthlyKeepInvestmentValue, g.monthlyKeepRealCosts,
      g.monthlyKeepNetPosition>>

SetGlobals(g) ==
    /\ config' = g.config
    /\ appreciationRates' = g.appreciationRates
    /\ taxFreeLimits' = g.taxFreeLimits
    /\ monthlyBuyingCosts' = g.monthlyBuyingCosts
    /\ monthlyRentingCosts' = g.monthlyRentingCosts
    /\ remainingLoanBalance' = g.remainingLoanBalance
    /\ cumulativePrincipalPaid' = g.cumulativePrincipalPaid
    /\ cumulativeInterestPaid' = g.cumulativeInterestPaid
    /\ monthlyKeepInvestmentValue' = g.monthlyKeepInvestmentValue
    /\ monthlyKeepRealCosts' = g.monthlyKeepRealCosts
    /\ monthlyKeepNetPosition' = g.monthlyKeepNetPosition

NoCall == [op |-> "none", months |-> 0, res |-> [panic |-> FALSE]]

\* No saved defaults: the map loadInputs returns on a first run.
NoDefaults == [k \in {} |-> <<>>]

\* The package-level variables when the process starts.
ProcessStart ==
    /\ currentInputs = NoInputs
    /\ isSellVsKeep = FALSE
    /\ config = ZeroGlobals.config
    /\ appreciationRates = <<>>
    /\ taxFreeLimits = <<>>
    /\ monthlyBuyingCosts = <<>>
    /\ monthlyRentingCosts = <<>>
    /\ remainingLoanBalance = <<>>
    /\ cumulativePrincipalPaid = <<>>
    /\ cumulativeInterestPaid = <<>>
    /\ monthlyKeepInvestmentValue = <<>>
    /\ monthlyKeepRealCosts = <<>>
    /\ monthlyKeepNetPosition = <<>>
    /\ phase = "start"
    /\ err = NoError
    /\ last = NoCall
    /\ runs = 0
    /\ populateCalls = 0
    /\ repeatIdentical = TRUE

Init ==
    /\ ProcessStart
    /\ form = NewFormModel(NoDefaults)

\* main after parseConfig returned r: an error ends the process.
Parsed(r, inputs, sellVsKeep) ==
    /\ SetGlobals(r.g)
    /\ err' = r.err
    /\ phase' = IF r.err = NoError THEN "parsed" ELSE "failed"
    /\ currentInputs' = inputs
    /\ isSellVsKeep' = sellVsKeep
    /\ runs' = runs + 1
    /\ populateCalls' = 0
    /\ last' = NoCall
    /\ repeatIdentical' = TRUE
    /\ UNCHANGED form

\* main: the form's values become currentInputs and parseConfig parses them
\* for the selected scenario; a further run in the same process starts on
\* the globals the earlier run left.
ParseConfig(inputs, sellVsKeep) ==
    /\ phase \in {"start", "populated"}
    /\ runs < MaxRuns
    /\ Parsed(parseConfig(Globals, inputs, sellVsKeep), inputs, sellVsKeep)

\* The globals become g, the result of a call of populateMonthlyCosts.
Populated(g) ==
    /\ SetGlobals(g)
    /\ repeatIdentical' = (populateCalls = 0 \/ SeriesOf(g) = series)
    /\ populateCalls' = populateCalls + 1
    /\ last' = NoCall
    /\ UNCHANGED <<currentInputs, isSellVsKeep, err, runs, form>>

\* runBuyVsRentScenario / runSellVsKeepScenario: populateMonthlyCosts.
PopulateMonthlyCosts ==
    /\ phase = "parsed"
    /\ phase' = "populated"
    /\ Populated(populateMonthlyCosts(Globals))

\* populateMonthlyCosts called again on the same config.
RepeatPopulateMonthlyCosts ==
    /\ phase \in {"populated", "repeated"}
    /\ populateCalls < MaxPopulateCalls
    /\ phase' = "repeated"
    /\ Populated(populateMonthlyCosts(Globals))

\* A calculation on the populated series: its result, or a panic that ends
\* the process.
Returned(op, months, res) ==
    /\ phase = "populated"
    /\ last' = [op |-> op, months |-> months, res |-> res]
    /\ phase' = IF res.panic THEN "panicked" ELSE "calculated"
    /\ UNCHANGED <<currentInputs, isSellVsKeep, globals, err, runs,
                   populateCalls, repeatIdentical, form>>

CalculateSaleProceeds(months) ==
    Returned("calculateSaleProceeds", months, calculateSaleProceeds(Globals, months))

CalculateNetWorth(months) ==
    /\ ~isSellVsKeep
    /\ Returned("calculateNetWorth", months, calculateNetWorth(Globals, months))

CalculateRentingNetWorth(months) ==
    /\ ~isSellVsKeep
    /\ Returned("calculateRentingNetWorth", months,
                calculateRentingNetWorth(Globals, months))

CalculateSellNetWorth(months) ==
    /\ isSellVsKeep
    /\ Returned("calculateSellNetWorth", months,
                calculateSellNetWorth(Globals, currentInputs, months))

CalculateKeepNetWorth(months) ==
    /\ isSellVsKeep
    /\ Returned("calculateKeepNetWorth", months,
                calculateKeepNetWorth(Globals, months))

DisplayExpenditureTable ==
    /\ ~isSellVsKeep
    /\ Returned("displayExpenditureTable", 0, displayExpenditureTable(Globals))

\* calculateMonthlyPayment on arguments of its own, before any run.
CalculateMonthlyPayment(principal, annualRate, months) ==
    /\ phase = "start"
    /\ last' = [op |-> "calculateMonthlyPayment", months |-> months,
                res |-> [panic |-> FALSE,
                         monthlyRate |-> annualRate,
                         payment |-> calculateMonthlyPayment(principal, annualRate,
                                                             months)]]
    /\ phase' = "calculated"
    /\ UNCHANGED <<currentInputs, isSellVsKeep, globals, err, runs,
                   populateCalls, repeatIdentical, form>>

Next ==
    \/ \E inputs \in BuyInputs : ParseConfig(inputs, FALSE)
    \/ \E inputs \in SellInputs : ParseConfig(inputs, TRUE)
    \/ PopulateMonthlyCosts
    \/ RepeatPopulateMonthlyCosts
    \/ \E months \in Months : CalculateSaleProceeds(months)
    \/ \E months \in Months : CalculateNetWorth(months)
    \/ \E months \in Months : CalculateRentingNetWorth(months)
    \/ \E months \in Months : CalculateSellNetWorth(months)
    \/ \E months \in Months : CalculateKeepNetWorth(months)
    \/ DisplayExpenditureTable
    \/ \E principal \in PaymentPrincipals, rate \in {0, 650},
          months \in PaymentMonths :
           CalculateMonthlyPayment(principal, rate, months)

Spec == Init /\ [][Next]_vars

\* ------------------------------------------------------------------------
\* The form's process: RunInteractiveForm
\* ------------------------------------------------------------------------

\* The saved defaults a form is opened with.
FormDefaults ==
    {NoDefaults,
     "scenario_sell_vs_keep" :> Chars("1"),
     ("scenario_buy_vs_rent" :> Chars("1"))
         @@ ("scenario_sell_vs_keep" :> <<"t", "r", "u", "e">>)
         @@ ("include_selling" :> <<"y", "e", "s">>),
     ("scenario_buy_vs_rent" :> Chars("0"))
         @@ ("scenario_sell_vs_keep" :> Chars("0"))
         @@ ("include_30year" :> Chars("1"))}

\* The inputs the user types into, the characters typed, and the longest
\* text typed into one of them.
TypedKeys == {"loan_amount", "remaining_loan_amount"}

TypedChars == {"5"}

MaxInputLen == 1

FormInit ==
    /\ ProcessStart
    /\ \E defaults \in FormDefaults : form = NewFormModel(defaults)

\* The program is running: neither submitted nor quit.
FormRunning == ~form.submitted /\ ~form.quit

\* A character may go to the focused field: a toggle ignores it, an input
\* the user types into has room for it.
CanType ==
    \/ fields(form.currentField).IsToggle
    \/ /\ fields(form.currentField).Key \in TypedKeys
       /\ Len(form.Input[fields(form.currentField).Key]) < MaxInputLen

\* Update on "ctrl+t".
KeyCtrlT ==
    /\ FormRunning
    /\ form' = UpdateCtrlT(form)
    /\ UNCHANGED calculation

\* Update on "ctrl+k".
KeyCtrlK ==
    /\ FormRunning
    /\ form' = UpdateCtrlK(form)
    /\ UNCHANGED calculation

\* Update on "up" or "shift+tab".
KeyUp ==
    /\ FormRunning
    /\ form' = UpdateUp(form)
    /\ UNCHANGED calculation

\* Update on "down" or "tab".
KeyDown ==
    /\ FormRunning
    /\ form' = UpdateDown(form)
    /\ UNCHANGED calculation

\* Update on " " or "enter".
KeySpaceOrEnter(key) ==
    /\ FormRunning
    /\ key = " " => CanType
    /\ form' = UpdateSpaceOrEnter(form, key)
    /\ UNCHANGED calculation

\* Update on a character key.
KeyRune(char) ==
    /\ FormRunning
    /\ CanType
    /\ form' = InputUpdate(form, char)
    /\ UNCHANGED calculation

\* Update on "ctrl+c" or "esc".
KeyQuit ==
    /\ FormRunning
    /\ form' = UpdateQuit(form)
    /\ UNCHANGED calculation

FormNext ==
    \/ KeyCtrlT
    \/ KeyCtrlK
    \/ KeyUp
    \/ KeyDown
    \/ \E key \in {" ", "enter"} : KeySpaceOrEnter(key)
    \/ \E char \in TypedChars : KeyRune(char)
    \/ KeyQuit

FormSpec == FormInit /\ [][FormNext]_vars

TypeOK ==
    phase \in {"start", "parsed", "failed", "populated", "repeated", "calculated",
               "panicked"}

\* ------------------------------------------------------------------------
\* Properties
\* ------------------------------------------------------------------------

\* C1: calculateMonthlyPayment asked for a term of zero or fewer months
\* returns a distinguishable domain error, whether the rate is zero or not:
\* never a finite number, an infinity or a NaN.
C1_DomainErrorForNonPositiveTerm ==
    (last.op = "calculateMonthlyPayment" /\ last.months <= 0)
        => last.res.payment.kind = "error"

\* The operations that take a month count and read the series.
PerMonthOperations ==
    {"calculateSaleProceeds", "calculateNetWorth", "calculateRentingNetWorth",
     "calculateSellNetWorth", "calculateKeepNetWorth"}

\* C2: on the populated series every per-month operation asked for more
\* than 360 months, and the cumulative sums of the expenditure table for a
\* period beyond 360 months, clamp to index 359: no read outside 0..359.
C2_ClampsBeyondTheSeries ==
    /\ (last.op \in PerMonthOperations /\ last.months > maxMonths)
           => ~last.res.panic
    /\ last.op = "displayExpenditureTable" => ~last.res.panic

\* The savings of month i + 1: buying cost minus renting cost.
MonthlySavings(i) == At(monthlyBuyingCosts, i) - At(monthlyRentingCosts, i)

\* The first n months all have the savings of the first.
ConstantDifferential(n) ==
    \A i \in 0..(n - 1) : MonthlySavings(i) = MonthlySavings(0)

\* calculateRentingNetWorth returned for n >= 1 months in the dollar-cost
\* averaging case: no initial investment, a constant monthly differential
\* and a positive investment return.
DollarCostAveraged ==
    /\ last.op = "calculateRentingNetWorth"
    /\ ~last.res.panic
    /\ last.months >= 1
    /\ config.downpayment - config.rentDeposit = 0
    /\ config.investmentReturnRate > 0
    /\ ConstantDifferential(last.months)

\* The rounding allowed over n months: a hundredth a month.
Tolerance(n) == n

\* s * ((1+i)^n - 1) / i, the future value of an ordinary annuity.
OrdinaryAnnuity(s, rate, n) ==
    MulDiv(MulDiv(s, MonthlyDen, rate),
           PowFactor(rate, n) - FactorScale, FactorScale)

\* s * (1+i) * ((1+i)^n - 1) / i, the future value of an annuity due.
AnnuityDue(s, rate, n) ==
    MulDiv(MulDiv(s, MonthlyDen + rate, rate),
           PowFactor(rate, n) - FactorScale, FactorScale)

\* s * n * (1+i)^n.
CompoundedTotal(s, rate, n) ==
    MulDiv(s * n, PowFactor(rate, n), FactorScale)

\* C3 as stated: with no initial investment and a constant monthly
\* differential s, the investment value of calculateRentingNetWorth after
\* n >= 1 months is the ordinary annuity s * ((1+i)^n - 1) / i.
C3_OrdinaryAnnuity ==
    DollarCostAveraged =>
        Abs(last.res.investmentValue
            - OrdinaryAnnuity(MonthlySavings(0), config.investmentReturnRate,
                              last.months))
            <= Tolerance(last.months)

\* C3: with no initial investment and a constant monthly differential s,
\* the investment value of calculateRentingNetWorth after n >= 1 months is
\* the annuity due s * (1+i) * ((1+i)^n - 1) / i: each month's savings are
\* added before that month's growth.
C3_AnnuityDue ==
    DollarCostAveraged =>
        Abs(last.res.investmentValue
            - AnnuityDue(MonthlySavings(0), config.investmentReturnRate,
                         last.months))
            <= Tolerance(last.months)

C3_Witness ==
    /\ DollarCostAveraged
    /\ last.months = maxMonths
    /\ MonthlySavings(0) > 0

\* C4 as stated: in the same case with s > 0, the investment value after
\* n >= 1 months is strictly less than s * n * (1+i)^n.
C4_StrictlyBelowCompoundedTotal ==
    (DollarCostAveraged /\ MonthlySavings(0) > 0) =>
        last.res.investmentValue
            < CompoundedTotal(MonthlySavings(0), config.investmentReturnRate,
                              last.months)

\* C4: in the same case with s > 0, the investment value after n >= 1
\* months is at most s * n * (1+i)^n, and strictly less from the second
\* month on; after one month it is s * (1+i), the bound itself.
C4_AtMostCompoundedTotal ==
    (DollarCostAveraged /\ MonthlySavings(0) > 0) =>
        /\ last.res.investmentValue
               <= CompoundedTotal(MonthlySavings(0), config.investmentReturnRate,
                                  last.months)
        /\ last.months >= 2 =>
               last.res.investmentValue
                   < CompoundedTotal(MonthlySavings(0),
                                     config.investmentReturnRate, last.months)

C4_Witness ==
    /\ DollarCostAveraged
    /\ MonthlySavings(0) > 0
    /\ last.months = 1
    /\ last.res.investmentValue
           = CompoundedTotal(MonthlySavings(0), config.investmentReturnRate, 1)

\* C5: parseConfig returns an error whenever the purchase price is not
\* positive and, for SELL vs KEEP, whenever the current market value is not
\* positive: no run goes on from a zero, negative or unparseable price.
C5_NonPositivePriceRejected ==
    runs > 0 =>
        /\ getFloatValue(currentInputs, "purchase_price").value <= 0
               => err # NoError
        /\ (isSellVsKeep
               /\ getFloatValue(currentInputs, "current_market_value").value <= 0)
               => err # NoError

\* The globals of this run's inputs parsed and populated in a process of
\* their own.
FreshRun ==
    populateMonthlyCosts(parseConfig(ZeroGlobals, currentInputs, isSellVsKeep).g)

\* C6: no state survives from one run to the next: a run's config and
\* series, and the sale outcome calculated on them, are those of the same
\* inputs run alone from a fresh process.
C6_NoStateSurvives ==
    /\ phase = "populated" => Globals = FreshRun
    /\ (phase \in {"calculated", "panicked"} /\ last.op = "calculateSaleProceeds")
           => last.res = calculateSaleProceeds(FreshRun, last.months)

\* C7: populateMonthlyCosts called again on the same config leaves all
\* eight series as the first call left them, and after any call the series
\* are those the config alone gives, whatever the globals held before.
C7_Idempotent ==
    phase \in {"populated", "repeated"} =>
        /\ repeatIdentical
        /\ series = SeriesOf(populateMonthlyCosts([ZeroGlobals EXCEPT !.config = config]))

C7_Witness ==
    /\ phase = "repeated"
    /\ populateCalls = 2
    /\ runs = 2
    /\ At(remainingLoanBalance, 0) > 0
    /\ At(monthlyKeepNetPosition, maxMonths - 1) # 0

\* populateMonthlyCosts has just filled the series with the amortization of
\* a loan at a positive rate over a positive term.
AmortizedLoan ==
    /\ phase \in {"populated", "repeated"}
    /\ config.loanAmount > 0
    /\ config.monthlyRate > 0
    /\ config.totalMonths > 0

\* The rounding allowed after n payments: a hundredth a month, compounded
\* at the loan's rate, ((1+r)^n - 1) / r hundredths.
RoundingDrift(rate, n) ==
    MulDiv(MonthlyDen, PowFactor(rate, n) - FactorScale, FactorScale) \div rate + 1

\* The series have an entry of index i where the cumulative principal is
\* the loan amount and the balance is zero, within the rounding.
ClosesAt(i) ==
    /\ InRange(cumulativePrincipalPaid, i)
    /\ InRange(remainingLoanBalance, i)
    /\ Abs(At(cumulativePrincipalPaid, i) - config.loanAmount)
           <= RoundingDrift(config.monthlyRate, i + 1)
    /\ Abs(At(remainingLoanBalance, i))
           <= RoundingDrift(config.monthlyRate, i + 1)

\* C8 as stated: for every loan amount, rate > 0 and term > 0 the
\* cumulative principal recorded at the loan's final month is the loan
\* amount and the balance recorded there is zero, within rounding.
C8_ClosesAtFinalMonth ==
    AmortizedLoan => ClosesAt(config.totalMonths - 1)

\* C8: for every loan amount, rate > 0 and term of 1 to 360 months the
\* cumulative principal recorded at the loan's final month is the loan
\* amount and the balance recorded there is zero, within rounding; the
\* series end at month 360 and record no final month of a longer loan.
C8_ClosesWithinTheSeries ==
    (AmortizedLoan /\ config.totalMonths <= maxMonths)
        => ClosesAt(config.totalMonths - 1)

C8_Witness ==
    /\ AmortizedLoan
    /\ config.totalMonths = maxMonths
    /\ At(cumulativePrincipalPaid, maxMonths - 2) < config.loanAmount
    /\ At(remainingLoanBalance, maxMonths - 2) > config.monthlyLoanPayment \div 2

\* (m div 12) - 1 clamped into 0 .. length - 1.
ClaimedTaxFreeLimitIndex(m, length) ==
    Min(Max(m \div 12 - 1, 0), length - 1)

\* C9: calculateSaleProceeds for a sale at month m uses the tax-free limit
\* of index (m div 12) - 1 clamped into 0 .. len(taxFreeLimits) - 1:
\* months 0 to 23 use index 0, month 24 uses index 1, and the years past
\* the schedule use its last entry.
C9_TaxFreeLimitIndex ==
    last.op = "calculateSaleProceeds" =>
        /\ ~last.res.panic
        /\ last.res.taxFreeLimitIndex
               = ClaimedTaxFreeLimitIndex(last.months, Len(taxFreeLimits))
        /\ last.res.taxFreeLimit = At(taxFreeLimits, last.res.taxFreeLimitIndex)

\* What the tax-free limit of a sale year is raised by, in hundredths.
Raises == {1, 10000 * Scale, 100000 * Scale}

\* The sale of the last call again, with the limit that applied raised.
SaleWithLimitRaised(raise) ==
    calculateSaleProceeds(
        [Globals EXCEPT !.taxFreeLimits[last.res.taxFreeLimitIndex + 1] = @ + raise],
        last.months)

\* C10: with a capital-gains tax rate >= 0, raising the tax-free limit that
\* applies to the sale year, all else equal, never increases the taxOnGains
\* calculateSaleProceeds returns and never decreases its netProceeds.
C10_TaxExemptionMonotone ==
    (last.op = "calculateSaleProceeds" /\ ~last.res.panic
        /\ config.capitalGainsTax >= 0) =>
        \A raise \in Raises :
            /\ SaleWithLimitRaised(raise).taxOnGains <= last.res.taxOnGains
            /\ SaleWithLimitRaised(raise).netProceeds >= last.res.netProceeds

C10_Witness ==
    /\ last.op = "calculateSaleProceeds"
    /\ ~last.res.panic
    /\ config.capitalGainsTax > 0
    /\ last.res.taxOnGains > 0
    /\ \E raise \in Raises :
           /\ SaleWithLimitRaised(raise).taxOnGains < last.res.taxOnGains
           /\ SaleWithLimitRaised(raise).taxOnGains > 0

\* calculateSaleProceeds returned a sale.
SaleReturned == last.op = "calculateSaleProceeds" /\ ~last.res.panic

\* C11: in calculateSaleProceeds the selling costs are deductible:
\* capitalGains = salePrice - purchasePrice - totalSellingCosts, from the
\* original purchase price even when the sale price starts from the current
\* market value, and taxOnGains = max(0, capitalGains - taxFreeLimit) *
\* capitalGainsTax / 100: zero when the gain is within the exemption, and
\* never negative for a tax rate >= 0.
C11_DeductibleSellingCosts ==
    SaleReturned =>
        /\ last.res.capitalGains
               = last.res.salePrice - config.purchasePrice
                 - last.res.totalSellingCosts
        /\ last.res.taxOnGains
               = MulFrac(Max(0, last.res.capitalGains - last.res.taxFreeLimit),
                         config.capitalGainsTax, PercentDen)
        /\ last.res.capitalGains <= last.res.taxFreeLimit
               => last.res.taxOnGains = 0
        /\ config.capitalGainsTax >= 0 => last.res.taxOnGains >= 0

C11_Witness ==
    /\ SaleReturned
    /\ isSellVsKeep
    /\ config.currentMarketValue > config.purchasePrice
    /\ config.capitalGainsTax > 0
    /\ last.res.totalSellingCosts > 0
    /\ last.res.capitalGains > last.res.taxFreeLimit
    /\ last.res.taxOnGains > 0

\* C12: calculateSaleProceeds returns totalSellingCosts = salePrice *
\* agentCommission / 100 + stagingCosts and netProceeds = salePrice -
\* totalSellingCosts - loanPayoff - taxOnGains; a sale price of 2,200,000
\* at 6% commission and 10,000 staging costs has selling costs 142,000.
C12_SellingCostsAndNetProceeds ==
    SaleReturned =>
        /\ last.res.totalSellingCosts
               = MulFrac(last.res.salePrice, config.agentCommission, PercentDen)
                 + config.stagingCosts
        /\ last.res.netProceeds
               = last.res.salePrice - last.res.totalSellingCosts
                 - last.res.loanPayoff - last.res.taxOnGains
        /\ (config.agentCommission = 6 * Scale
               /\ config.stagingCosts = 10000 * Scale)
               => SaleOutcome(config, 2200000 * Scale, last.res.loanPayoff,
                              last.res.taxFreeLimit, last.res.monthIndex,
                              last.res.taxFreeLimitIndex).totalSellingCosts
                  = 142000 * Scale

C12_Witness ==
    /\ SaleReturned
    /\ config.agentCommission = 6 * Scale
    /\ config.stagingCosts = 10000 * Scale
    /\ last.res.loanPayoff > 0
    /\ last.res.taxOnGains > 0

\* The balance of the loan of config after m payments, paid as
\* populateMonthlyCosts pays it.
BalanceAfter(m) ==
    ElapsedLoop(config.loanAmount, config.monthlyLoanPayment, config.monthlyRate,
                0, m)

\* What rounding may leave of the loan of config once its last payment
\* is made.
PaidOffTolerance ==
    IF config.monthlyRate > 0
    THEN RoundingDrift(config.monthlyRate, config.totalMonths)
    ELSE config.totalMonths

\* C13 as stated: for every sale month m >= 1 the loan payoff of
\* calculateSaleProceeds is remainingLoanBalance[min(m-1, 359)]: the
\* balance after the m-th payment while m <= loan term, and 0 for any month
\* after the loan term has ended.
C13_LoanPayoff ==
    (SaleReturned /\ last.months >= 1) =>
        /\ last.res.loanPayoff
               = At(remainingLoanBalance, Min(last.months - 1, maxMonths - 1))
        /\ last.months <= config.totalMonths
               => last.res.loanPayoff = BalanceAfter(last.months)
        /\ last.months > config.totalMonths
               => Abs(last.res.loanPayoff) <= PaidOffTolerance

\* C13: for every sale month m >= 1 the loan payoff of
\* calculateSaleProceeds is remainingLoanBalance[min(m-1, 359)]: the
\* balance after the m-th payment while m <= min(loan term, 360), 0 for any
\* month after a loan term below 360 has ended, and the balance after the
\* 360th payment for every month beyond 360 whatever the term.
C13_LoanPayoffWithinTheSeries ==
    (SaleReturned /\ last.months >= 1) =>
        /\ last.res.loanPayoff
               = At(remainingLoanBalance, Min(last.months - 1, maxMonths - 1))
        /\ last.months <= Min(config.totalMonths, maxMonths)
               => last.res.loanPayoff = BalanceAfter(last.months)
        /\ (last.months > config.totalMonths /\ config.totalMonths < maxMonths)
               => last.res.loanPayoff = 0
        /\ (last.months > maxMonths /\ config.totalMonths >= maxMonths)
               => last.res.loanPayoff = BalanceAfter(maxMonths)

C13_Witness ==
    /\ SaleReturned
    /\ last.months = 120
    /\ config.totalMonths = maxMonths
    /\ last.res.loanPayoff > 0
    /\ last.res.loanPayoff < config.loanAmount

\* base * (1 + rate[0]/100) * ... * (1 + rate[k-1]/100), the schedule's
\* last rate taken for every year past its end.
RECURSIVE Compounded(_, _, _)
Compounded(base, rates, k) ==
    IF k <= 0 THEN base
    ELSE Grow(Compounded(base, rates, k - 1),
              At(rates, Min(k - 1, Len(rates) - 1)), PercentDen)

\* calculateNetWorth returned.
NetWorthReturned == last.op = "calculateNetWorth" /\ ~last.res.panic

\* The sale calculateSaleProceeds gives for the month of the last call.
SaleOfSameMonth == calculateSaleProceeds(Globals, last.months)

\* C14: for months = 12k the appreciated value is the base times the
\* product of (1 + rate[min(i, len-1)]/100) over i = 0..k-1, with no
\* partial-year factor, so a schedule [r] gives base * (1 + r/100)^k; and
\* calculateSaleProceeds and calculateNetWorth give the same value from the
\* same base and schedule.
C14_AppreciationCompounding ==
    /\ (SaleReturned /\ last.months % 12 = 0)
           => last.res.salePrice
                  = Compounded(StartingPrice(config), appreciationRates,
                               last.months \div 12)
    /\ (NetWorthReturned /\ last.months % 12 = 0)
           => last.res.assetValue
                  = Compounded(config.purchasePrice, appreciationRates,
                               last.months \div 12)
    /\ (NetWorthReturned /\ StartingPrice(config) = config.purchasePrice
           /\ ~SaleOfSameMonth.panic)
           => last.res.assetValue = SaleOfSameMonth.salePrice

C14_Witness ==
    /\ SaleReturned
    /\ last.months = 480
    /\ Len(appreciationRates) = 1
    /\ At(appreciationRates, 0) > 0
    /\ last.res.salePrice > 4 * StartingPrice(config)

\* populateMonthlyCosts has just filled the series.
SeriesFilled == phase \in {"populated", "repeated"}

\* base * (1 + rate/100)^years, a year at a time.
RECURSIVE Inflated(_, _, _)
Inflated(base, rate, years) ==
    IF years <= 0 THEN base
    ELSE Grow(Inflated(base, rate, years - 1), rate, PercentDen)

\* The recurring expenses of the first year: insurance and taxes by the
\* month, and the monthly expenses.
BaseRecurringExpenses ==
    MulFrac(config.annualInsurance + config.annualTaxes, 1, 12)
    + config.monthlyExpenses

\* The loan payment in the buying cost of month index i.
LoanPart(i) == IF i < config.totalMonths THEN config.monthlyLoanPayment ELSE 0

\* The months of year index y have renting cost r and recurring expenses e.
YearHolds(y, r, e) ==
    \A i \in (12 * y)..(12 * y + 11) :
        /\ At(monthlyRentingCosts, i) = r
        /\ At(monthlyBuyingCosts, i) - LoanPart(i) = e

\* C15: inflation is a yearly step: for every month index i in 0..359,
\* monthlyRentingCosts[i] = totalMonthlyRentingCost * (1 +
\* inflationRate/100)^(i div 12), and the recurring-expense part of the
\* buying cost is the base recurring expense times the same factor; both
\* are constant within a year and uninflated in months 0..11.
C15_YearlyInflationStep ==
    SeriesFilled =>
        \A y \in 0..(maxMonths \div 12 - 1) :
            YearHolds(y,
                      Inflated(config.totalMonthlyRentingCost,
                               config.inflationRate, y),
                      Inflated(BaseRecurringExpenses, config.inflationRate, y))

C15_Witness ==
    /\ SeriesFilled
    /\ config.inflationRate > 0
    /\ At(monthlyRentingCosts, 11) = config.totalMonthlyRentingCost
    /\ At(monthlyRentingCosts, 12) > At(monthlyRentingCosts, 11)
    /\ At(monthlyRentingCosts, maxMonths - 1) > 2 * At(monthlyRentingCosts, 0)
    /\ BaseRecurringExpenses > 0

\* The months of year index y have buying cost e, and the loan payment on
\* top of it while the loan runs.
BuyingYearHolds(y, e) ==
    \A i \in (12 * y)..(12 * y + 11) :
        At(monthlyBuyingCosts, i)
            = IF i < config.totalMonths THEN config.monthlyLoanPayment + e ELSE e

\* C16: for every month index i in 0..359, monthlyBuyingCosts[i] is
\* monthlyLoanPayment plus the inflated recurring expenses when i < loan
\* term and the inflated recurring expenses alone when i >= loan term: the
\* loan payment is the same in every month of the term, never inflated.
C16_BuyingCosts ==
    SeriesFilled =>
        \A y \in 0..(maxMonths \div 12 - 1) :
            BuyingYearHolds(y, Inflated(BaseRecurringExpenses,
                                        config.inflationRate, y))

C16_Witness ==
    /\ SeriesFilled
    /\ config.inflationRate > 0
    /\ config.monthlyLoanPayment > 0
    /\ config.totalMonths = 7
    /\ At(monthlyBuyingCosts, 6) - At(monthlyBuyingCosts, 7)
           = config.monthlyLoanPayment
    /\ At(monthlyBuyingCosts, 12) > At(monthlyBuyingCosts, 7)

\* The entry of series s at the last month of the loan term, 0 without a
\* loan term.
AtEndOfTerm(s) ==
    IF config.totalMonths <= 0 THEN 0 ELSE At(s, config.totalMonths - 1)

\* C17: after populateMonthlyCosts, whatever the loan term, all eight
\* series have length 360, and at every index i >= loan term the remaining
\* balance is 0 and the cumulative principal and interest are those of the
\* last month of the term (0 throughout without a loan).
C17_SeriesLengthAndTail ==
    SeriesFilled =>
        /\ \A k \in 1..Len(series) : Len(series[k]) = 360
        /\ \A i \in 0..359 :
               i >= config.totalMonths =>
                   /\ At(remainingLoanBalance, i) = 0
                   /\ At(cumulativePrincipalPaid, i)
                          = AtEndOfTerm(cumulativePrincipalPaid)
                   /\ At(cumulativeInterestPaid, i)
                          = AtEndOfTerm(cumulativeInterestPaid)

C17_Witness ==
    /\ SeriesFilled
    /\ config.totalMonths = 12
    /\ At(remainingLoanBalance, 10) > 0
    /\ At(remainingLoanBalance, 12) = 0
    /\ At(cumulativePrincipalPaid, maxMonths - 1) > 0
    /\ At(cumulativeInterestPaid, maxMonths - 1) > 0
    /\ Len(monthlyKeepNetPosition) = maxMonths

\* calculateRentingNetWorth returned.
RentingReturned == last.op = "calculateRentingNetWorth" /\ ~last.res.panic

\* V_n from V_(n-1), the investment value calculateRentingNetWorth gives a
\* month earlier: the differential of month n added, then the whole grown.
NextRentingValue(n) ==
    Grow(calculateRentingNetWorth(Globals, n - 1).investmentValue
         + At(monthlyBuyingCosts, n - 1) - At(monthlyRentingCosts, n - 1),
         config.investmentReturnRate, MonthlyDen)

\* C18: the renting net worth at month n in 0..360 is V_n + 0.75 *
\* rentDeposit, where V_0 = downpayment - rentDeposit and V_(k+1) = (V_k +
\* monthlyBuyingCosts[k] - monthlyRentingCosts[k]) * (1 +
\* investmentReturnRate/100/12).
C18_RentingNetWorth ==
    (last.op = "calculateRentingNetWorth" /\ last.months <= maxMonths) =>
        /\ ~last.res.panic
        /\ last.res.netWorth
               = last.res.investmentValue + MulFrac(config.rentDeposit, 75, 100)
        /\ last.months = 0
               => last.res.investmentValue
                      = config.downpayment - config.rentDeposit
        /\ last.months >= 1
               => last.res.investmentValue = NextRentingValue(last.months)

C18_Witness ==
    /\ RentingReturned
    /\ last.months = 13
    /\ config.rentDeposit > 0
    /\ config.downpayment > config.rentDeposit
    /\ config.investmentReturnRate > 0
    /\ last.res.investmentValue > config.downpayment - config.rentDeposit

\* The invested value and the real cost standing before month i.
InvestedBefore(i) == IF i = 0 THEN 0 ELSE At(monthlyKeepInvestmentValue, i - 1)

RealCostBefore(i) == IF i = 0 THEN 0 ELSE At(monthlyKeepRealCosts, i - 1)

\* The part of a positive buying cost the invested value covers.
Covered(i) ==
    IF At(monthlyBuyingCosts, i) > 0
    THEN Min(InvestedBefore(i), At(monthlyBuyingCosts, i))
    ELSE 0

\* Month i of the surplus/deficit series follows from month i - 1.
KeepMonthHolds(i, cost) ==
    /\ At(monthlyKeepInvestmentValue, i)
           = Grow(IF cost < 0 THEN InvestedBefore(i) + (-cost)
                  ELSE InvestedBefore(i) - Covered(i),
                  config.investmentReturnRate, MonthlyDen)
    /\ At(monthlyKeepRealCosts, i)
           = RealCostBefore(i) + (IF cost > 0 THEN cost - Covered(i) ELSE 0)
    /\ At(monthlyKeepNetPosition, i)
           = At(monthlyKeepInvestmentValue, i) - At(monthlyKeepRealCosts, i)

\* C19: from invested value 0 and real cost 0, each month a negative buying
\* cost adds its magnitude to the invested value, a positive one is drawn
\* from the invested value first and only the uncovered remainder is added to
\* the real cost, then the invested value grows by the monthly return, and the
\* net position is invested value minus real cost, for every i in 0..359.
C19_SurplusDeficitTracking ==
    SeriesFilled =>
        \A i \in 0..359 : KeepMonthHolds(i, At(monthlyBuyingCosts, i))

C19_Witness ==
    /\ SeriesFilled
    /\ config.investmentReturnRate > 0
    /\ \E i \in 0..359 : At(monthlyBuyingCosts, i) < 0
    /\ \E i \in 0..359 :
           /\ At(monthlyBuyingCosts, i) > 0
           /\ InvestedBefore(i) > 0
           /\ InvestedBefore(i) < At(monthlyBuyingCosts, i)
           /\ At(monthlyKeepRealCosts, i) > RealCostBefore(i)
    /\ \E i \in 0..359 :
           /\ At(monthlyBuyingCosts, i) > 0
           /\ InvestedBefore(i) >= At(monthlyBuyingCosts, i)
           /\ At(monthlyKeepInvestmentValue, i) > 0

\* C20: the buying net worth at month m is the netProceeds of
\* calculateSaleProceeds(m) when includeSelling > 0, and otherwise the
\* appreciated asset value at m minus remainingLoanBalance[m-1], with no
\* selling cost and no tax taken off.
C20_BuyingNetWorth ==
    NetWorthReturned =>
        /\ last.res.assetValue
               = CompoundAppreciation(config.purchasePrice, appreciationRates,
                                      last.months)
        /\ config.includeSelling > 0
               => /\ ~SaleOfSameMonth.panic
                  /\ last.res.netWorth = SaleOfSameMonth.netProceeds
        /\ ~(config.includeSelling > 0)
               => last.res.netWorth
                      = last.res.assetValue
                        - At(remainingLoanBalance, last.months - 1)

C20_Witness ==
    /\ NetWorthReturned
    /\ ~(config.includeSelling > 0)
    /\ last.months = 120
    /\ At(remainingLoanBalance, 119) > 0
    /\ last.res.totalExpenditure > 0
    /\ last.res.netWorth < last.res.assetValue
    /\ last.res.netWorth > SaleOfSameMonth.netProceeds

\* calculateKeepNetWorth was called for a month of the series.
KeepCalledWithinSeries ==
    /\ last.op = "calculateKeepNetWorth"
    /\ last.months >= 1
    /\ last.months <= 360

\* C21: the keep-arm net worth at month m in 1..360 is the netProceeds of
\* calculateSaleProceeds(m) plus monthlyKeepNetPosition[m-1].
C21_KeepNetWorth ==
    KeepCalledWithinSeries =>
        /\ ~last.res.panic
        /\ ~SaleOfSameMonth.panic
        /\ last.res.netWorth
               = SaleOfSameMonth.netProceeds
                 + At(monthlyKeepNetPosition, last.months - 1)

C21_Witness ==
    /\ KeepCalledWithinSeries
    /\ ~last.res.panic
    /\ last.months = 120
    /\ At(monthlyKeepNetPosition, 119) > 0
    /\ At(monthlyKeepNetPosition, 119) # At(monthlyKeepNetPosition, 120)
    /\ SaleOfSameMonth.netProceeds > 0
    /\ last.res.netWorth > SaleOfSameMonth.netProceeds

\* calculateSellNetWorth returned.
SellReturned == last.op = "calculateSellNetWorth" /\ ~last.res.panic

\* The post-sale renting sub-scenario is switched on.
IncludeRenting == getFloatValue(currentInputs, "include_renting_sell").value > 0

\* P0: what selling today leaves, the gain measured against the purchase
\* price with the selling costs deducted and the first exemption applied.
SellingCostsToday ==
    MulFrac(config.currentMarketValue, config.agentCommission, PercentDen)
    + config.stagingCosts

TaxToday ==
    MulFrac(Max(0, config.currentMarketValue - config.purchasePrice
                   - SellingCostsToday - At(taxFreeLimits, 0)),
            config.capitalGainsTax, PercentDen)

NetProceedsToday ==
    config.currentMarketValue - SellingCostsToday - config.loanAmount - TaxToday

\* The sell-arm net worth a month earlier.
SellNetWorthBefore(n) ==
    calculateSellNetWorth(Globals, currentInputs, n - 1).netWorth

\* C22: the sell-arm net worth at month n is P0 grown month by month:
\* without the renting sub-scenario P0 * (1 + r)^n; with it, from P0 -
\* rentDeposit each month subtracts monthlyRentingCosts[i] and then compounds
\* by (1 + r), and 0.75 * rentDeposit is added at the end.
C22_SellNetWorth ==
    SellReturned =>
        /\ last.res.netProceeds = NetProceedsToday
        /\ (~IncludeRenting /\ last.months = 0)
               => last.res.netWorth = NetProceedsToday
        /\ (~IncludeRenting /\ last.months >= 1)
               => last.res.netWorth
                      = Grow(SellNetWorthBefore(last.months),
                             config.investmentReturnRate, MonthlyDen)
        /\ (IncludeRenting /\ last.months = 0)
               => last.res.netWorth
                      = NetProceedsToday - config.rentDeposit
                        + MulFrac(config.rentDeposit, 75, 100)
        /\ (IncludeRenting /\ last.months >= 1)
               => last.res.netWorth
                      = Grow(SellNetWorthBefore(last.months)
                             - MulFrac(config.rentDeposit, 75, 100)
                             - At(monthlyRentingCosts, last.months - 1),
                             config.investmentReturnRate, MonthlyDen)
                        + MulFrac(config.rentDeposit, 75, 100)

C22_Witness ==
    /\ SellReturned
    /\ IncludeRenting
    /\ last.months = 120
    /\ config.rentDeposit > 0
    /\ config.investmentReturnRate > 0
    /\ TaxToday > 0
    /\ NetProceedsToday > 0
    /\ last.res.netWorth > NetProceedsToday

\* The text parseConfig read for assignment e of CommonFields does not parse.
Unparseable(e) ==
    IF e[4] \in {"rates", "limits"}
    THEN parseAppreciationRates(currentInputs[e[1]]).err
    ELSE parseAmount(currentInputs[e[1]]).err

\* C23: parsing never silently substitutes zero for an invalid value: if any
\* field's text is non-empty and unparseable (agent commission, staging
\* costs, capital-gains tax, tax-free limit and include-selling included),
\* parseConfig returns an error and no projection is run.
C23_InvalidInputRejected ==
    (runs > 0 /\ \E k \in 1..Len(CommonFields) : Unparseable(CommonFields[k]))
        => /\ err # NoError
           /\ phase = "failed"

\* years*12 + months of a duration text whose parts are numbers or absent.
TotalOf(duration) == duration.years.n * 12 + duration.months.n

WellFormed(duration) ==
    duration.years.kind # "bad" /\ duration.months.kind # "bad"

\* parseDuration on a well-formed text: an error exactly when the total is
\* not positive, and the total itself otherwise.
DurationParsed(duration) ==
    WellFormed(duration) =>
        /\ parseDuration(duration).err <=> TotalOf(duration) <= 0
        /\ ~parseDuration(duration).err
               => parseDuration(duration).value = TotalOf(duration)

\* parseConfig reached the loan branch of the scenario: every field before
\* it parsed and the loan amount is positive.
LoanBranchReached ==
    /\ runs > 0
    /\ err \in {NoError, "invalid loan term", "invalid remaining loan term"}
    /\ getFloatValue(currentInputs, "loan_amount").value > 0

\* C24: parseDuration returns an error whenever years*12 + months <= 0, the
\* text with neither part included, and exactly years*12 + months > 0 on
\* success; so whenever parseConfig succeeds with loanAmount > 0,
\* config.totalMonths > 0 and calculateMonthlyPayment was called with
\* positive terms only.
C24_NonPositiveDurationRejected ==
    /\ DurationParsed(currentInputs.loan_term)
    /\ DurationParsed(currentInputs.remaining_loan_term)
    /\ (LoanBranchReached /\ WellFormed(currentInputs.loan_term)
           /\ TotalOf(currentInputs.loan_term) <= 0)
           => /\ err = "invalid loan term"
              /\ phase = "failed"
    /\ (LoanBranchReached /\ err = NoError)
           => /\ config.totalMonths > 0
              /\ TotalOf(currentInputs.loan_term) > 0
              /\ config.totalMonths
                     = TotalOf(IF isSellVsKeep
                               THEN currentInputs.remaining_loan_term
                               ELSE currentInputs.loan_term)

C24_Witness ==
    /\ LoanBranchReached
    /\ err = "invalid loan term"
    /\ phase = "failed"
    /\ currentInputs.loan_term.years.kind = "int"
    /\ currentInputs.loan_term.months.kind = "int"
    /\ currentInputs.loan_term.years.n > 0
    /\ TotalOf(currentInputs.loan_term) < 0

\* parseConfig returned without an error.
ParseSucceeded == runs > 0 /\ err = NoError

\* A calculation that looks a schedule up was made.
ScheduleLookedUp ==
    last.op \in {"calculateSaleProceeds", "calculateNetWorth",
                 "calculateSellNetWorth"}

\* C25: after any successful parseConfig both appreciationRates and
\* taxFreeLimits have length >= 1 (empty text gives [0], an unparseable
\* tax-free-limit text gives [0]), so the clamped schedule lookups of
\* calculateSaleProceeds, calculateNetWorth and calculateSellNetWorth never
\* index an empty sequence.
C25_SchedulesNonEmpty ==
    ParseSucceeded =>
        /\ Len(appreciationRates) >= 1
        /\ Len(taxFreeLimits) >= 1
        /\ currentInputs.appreciation_rate = <<>> => appreciationRates = <<0>>
        /\ currentInputs.tax_free_limit = <<>> => taxFreeLimits = <<0>>
        /\ parseRateParts(currentInputs.tax_free_limit, <<>>).err
               => taxFreeLimits = <<0>>
        /\ (ScheduleLookedUp /\ last.months >= 1)
               => /\ InRange(appreciationRates,
                             ClampHigh(last.months \div 12, Len(appreciationRates)))
                  /\ InRange(taxFreeLimits, 0)
        /\ (ScheduleLookedUp /\ last.months >= 1 /\ last.months <= maxMonths)
               => ~last.res.panic

C25_Witness ==
    /\ ParseSucceeded
    /\ currentInputs.appreciation_rate = <<>>
    /\ currentInputs.tax_free_limit = <<>>
    /\ last.op = "calculateSaleProceeds"
    /\ last.months = 120
    /\ ~last.res.panic
    /\ last.res.salePrice = config.purchasePrice

\* The balance before the payment of month i.
BalanceBefore(i) ==
    IF i = 0 THEN config.loanAmount ELSE At(remainingLoanBalance, i - 1)

C27_KeepArmInvariant ==
    (SeriesFilled /\ config.investmentReturnRate >= 0) =>
        \A i \in 0..359 :
            /\ At(monthlyKeepInvestmentValue, i) >= 0
            /\ At(monthlyKeepRealCosts, i) >= 0
            /\ i > 0 => At(monthlyKeepRealCosts, i) >= At(monthlyKeepRealCosts, i - 1)

\* A surplus was built up, then used up by a cost it could not cover.
C27_Witness ==
    /\ SeriesFilled
    /\ config.investmentReturnRate >= 0
    /\ \E i \in 1..359 :
           /\ At(monthlyKeepInvestmentValue, i - 1) > 0
           /\ At(monthlyBuyingCosts, i) > At(monthlyKeepInvestmentValue, i - 1)
           /\ At(monthlyKeepInvestmentValue, i) = 0
           /\ At(monthlyKeepRealCosts, i) > At(monthlyKeepRealCosts, i - 1)

\* C28: month 0 is handled without an out-of-range read:
\* calculateKeepNetWorth(0) and the calculateSaleProceeds(0) call it makes
\* read only indices within 0..359 of the series.
C28_MonthZeroWithinRange ==
    (last.op \in {"calculateKeepNetWorth", "calculateSaleProceeds"}
        /\ last.months = 0)
        => /\ ~last.res.panic
           /\ InRange(remainingLoanBalance, SaleMonthIndex(Globals, 0))

\* Exactly one of the two scenario toggles is set.
OneScenarioToggled ==
    form.Toggled["scenario_buy_vs_rent"] # form.Toggled["scenario_sell_vs_keep"]

\* C29: from NewFormModel and after any sequence of key events exactly one
\* of the toggles scenario_buy_vs_rent and scenario_sell_vs_keep is set, and
\* the values submitted with ctrl+k hold "1" for exactly one of the two keys.
C29_ScenariosMutuallyExclusive ==
    /\ OneScenarioToggled
    /\ form.submitted
           => /\ (form.values["scenario_buy_vs_rent"] = Chars("1"))
                  # (form.values["scenario_sell_vs_keep"] = Chars("1"))
              /\ form.values["scenario_buy_vs_rent"] \in {Chars("0"), Chars("1")}
              /\ form.values["scenario_sell_vs_keep"] \in {Chars("0"), Chars("1")}
              /\ (form.values["scenario_sell_vs_keep"] = Chars("1"))
                     <=> form.Toggled["scenario_sell_vs_keep"]

C29_Witness ==
    /\ form.submitted
    /\ form.values["scenario_sell_vs_keep"] = Chars("1")
    /\ form.values["scenario_buy_vs_rent"] = Chars("0")
    /\ form.values["remaining_loan_amount"] = Chars("5")
    /\ form.values["include_renting_sell"] = Chars("1")
    /\ form.currentField > 1

\* C30: after any sequence of key events currentField stays within
\* 0..len(fields)-1 and the focused field is visible in the currently
\* selected scenario, so typed input never goes to a hidden field.
C30_FocusedFieldVisible ==
    /\ form.currentField >= 0
    /\ form.currentField <= NumFields - 1
    /\ isFieldVisible(form, form.currentField)
====
